---------------------------- MODULE Spec2Model ----------------------------
(***************************************************************************)
(* Model of simple-code-reader-mcp (src/src/index.ts): the tag-driven     *)
(* block extractor (extractCodeBlocks), the query parser (parseQuery),    *)
(* the matcher (matchesQuery), the traversal (scanFiles, shouldIgnore,    *)
(* parseGitignore) and the two tool handlers.                              *)
(*                                                                         *)
(* Text is modelled as it is in the program: a string is a sequence of    *)
(* one-character strings, and the regular expressions of the source are   *)
(* evaluated on those characters.                                          *)
(***************************************************************************)
EXTENDS Integers, Sequences, FiniteSets, TLC

(***************************************************************************)
(* Bounds of the model.                                                    *)
(***************************************************************************)
\* Largest number of lines of the files that are enumerated line by line.
MaxLines == 4
\* Largest number of pieces a query string is assembled from.
MaxPieces == 3

(***************************************************************************)
(* Strings: character classes and the String.prototype methods used.      *)
(***************************************************************************)
\* \s of a JavaScript regular expression, and what trim() strips.
WS == {" ", "\t", "\n", "\r"}

Lower == {"a","b","c","d","e","f","g","h","i","j","k","l","m",
          "n","o","p","q","r","s","t","u","v","w","x","y","z"}

Upper == {"A","B","C","D","E","F","G","H","I","J","K","L","M",
          "N","O","P","Q","R","S","T","U","V","W","X","Y","Z"}

Digit == {"0","1","2","3","4","5","6","7","8","9"}

\* \w
WordCh == Lower \cup Upper \cup Digit \cup {"_"}

\* [A-Za-z_$]
IdStart == Lower \cup Upper \cup {"_", "$"}

\* [\w$]
IdCh == WordCh \cup {"$"}

\* [a-zA-Z0-9_-], the characters of a scope name in a tag annotation
ScopeCh == Lower \cup Upper \cup Digit \cup {"_", "-"}

\* [:<\w\s,<>.?=&[\]{}().], the type-annotation characters of pattern 6
TypeCh == WordCh \cup WS \cup
          {":", "<", ",", ">", ".", "?", "=", "&", "[", "]", "{", "}", "(", ")"}

RECURSIVE TrimStart(_)
TrimStart(s) ==
    IF s # << >> /\ Head(s) \in WS THEN TrimStart(Tail(s)) ELSE s

RECURSIVE TrimEnd(_)
TrimEnd(s) ==
    IF s # << >> /\ s[Len(s)] \in WS
    THEN TrimEnd(SubSeq(s, 1, Len(s) - 1))
    ELSE s

\* String.prototype.trim
Trim(s) == TrimEnd(TrimStart(s))

\* String.prototype.startsWith
StartsWith(s, p) == Len(p) <= Len(s) /\ SubSeq(s, 1, Len(p)) = p

\* String.prototype.includes for a one-character needle
Includes(s, c) == \E k \in 1..Len(s) : s[k] = c

\* String.prototype.split for a set of one-character separators
\* (split("\n"), split(":"), split(/[|&]/), split(/[,|&]/)): the pieces
\* between separators, empty pieces kept.
RECURSIVE SplitOn(_, _)
SplitOn(s, seps) ==
    IF \A k \in 1..Len(s) : s[k] \notin seps THEN << s >>
    ELSE LET k == CHOOSE n \in 1..Len(s) :
                      s[n] \in seps /\ \A m \in 1..(n - 1) : s[m] \notin seps
         IN  << SubSeq(s, 1, k - 1) >> \o SplitOn(SubSeq(s, k + 1, Len(s)), seps)

\* Array.prototype.join with a one-character separator
RECURSIVE JoinWith(_, _)
JoinWith(parts, sep) ==
    IF parts = << >> THEN << >>
    ELSE IF Len(parts) = 1 THEN parts[1]
    ELSE parts[1] \o << sep >> \o JoinWith(Tail(parts), sep)

\* .map(t => t.trim()).filter(Boolean): trim every piece, drop the empty ones
RECURSIVE TrimAndDropEmpty(_)
TrimAndDropEmpty(parts) ==
    IF parts = << >> THEN << >>
    ELSE LET t == Trim(Head(parts))
         IN  (IF t = << >> THEN << >> ELSE << t >>) \o TrimAndDropEmpty(Tail(parts))

(***************************************************************************)
(* Regular expressions.  A pattern is a tree of records; Ends(r, s, at)   *)
(* is the set of positions j such that the characters s[at..j-1] match r.  *)
(***************************************************************************)
Lit(w)    == [t |-> "lit", w |-> w]

In(S)     == [t |-> "in", s |-> S]

NotIn(S)  == [t |-> "notin", s |-> S]

Cat(rs)   == [t |-> "cat", rs |-> rs]

Alt(rs)   == [t |-> "alt", rs |-> rs]

Opt(r)    == [t |-> "opt", r |-> r]

Star(r)   == [t |-> "star", r |-> r]

Plus(r)   == [t |-> "cat", rs |-> << r, [t |-> "star", r |-> r] >>]

\* \b
WordB     == [t |-> "wb"]

\* \b holds at position at of s: exactly one of s[at-1], s[at] is a \w character
AtWordBoundary(s, at) ==
    LET before == at > 1 /\ at - 1 <= Len(s) /\ s[at - 1] \in WordCh
        after  == at >= 1 /\ at <= Len(s) /\ s[at] \in WordCh
    IN  before # after

RECURSIVE Ends(_, _, _)
RECURSIVE CatEnds(_, _, _)
RECURSIVE StarEnds(_, _, _)
Ends(r, s, at) ==
    CASE r.t = "lit"   -> IF at + Len(r.w) - 1 <= Len(s)
                             /\ SubSeq(s, at, at + Len(r.w) - 1) = r.w
                          THEN {at + Len(r.w)} ELSE {}
      [] r.t = "in"    -> IF at <= Len(s) /\ s[at] \in r.s THEN {at + 1} ELSE {}
      [] r.t = "notin" -> IF at <= Len(s) /\ s[at] \notin r.s THEN {at + 1} ELSE {}
      [] r.t = "wb"    -> IF AtWordBoundary(s, at) THEN {at} ELSE {}
      [] r.t = "opt"   -> {at} \cup Ends(r.r, s, at)
      [] r.t = "alt"   -> UNION { Ends(r.rs[k], s, at) : k \in 1..Len(r.rs) }
      [] r.t = "cat"   -> CatEnds(r.rs, s, {at})
      [] r.t = "star"  -> StarEnds(r.r, s, {at})

CatEnds(rs, s, P) ==
    IF rs = << >> \/ P = {} THEN P
    ELSE CatEnds(Tail(rs), s, UNION { Ends(Head(rs), s, p) : p \in P })

StarEnds(r, s, P) ==
    LET N == UNION { Ends(r, s, p) : p \in P } \ P
    IN  IF N = {} THEN P ELSE StarEnds(r, s, P \cup N)

\* RegExp.prototype.test for a pattern anchored with ^
TestAnchored(r, s) == Ends(r, s, 1) # {}


(***************************************************************************)
(* The lines the model's files are made of.                                *)
(***************************************************************************)
\* // [a:x]
LineTagA == <<"/","/"," ","[","a",":","x","]">>

\* * [b:x,y]
LineTagB == <<"*"," ","[","b",":","x",",","y","]">>

\* // [a:x] [b:y]
LineTwoTags == <<"/","/"," ","[","a",":","x","]"," ","[","b",":","y","]">>

\* // [a:,]
LineNoTagValue == <<"/","/"," ","[","a",":",",","]">>

\* # n
LinePlainComment == <<"#"," ","n">>

\* @dec
LineDecorator == <<"@","d","e","c">>

\* function f() {}
LineFunction == <<"f","u","n","c","t","i","o","n"," ","f","(",")"," ","{","}">>

\* const g = () => x
LineArrow == <<"c","o","n","s","t"," ","g"," ","="," ","(",")"," ","=",">"," ","x">>

LineBlank == << >>

\*   x = 1
LineBody == <<" "," ","x"," ","="," ","1">>

LineVocab ==
    { LineTagA, LineTagB, LineTwoTags, LineNoTagValue, LinePlainComment,
      LineDecorator, LineFunction, LineArrow, LineBlank, LineBody }

(***************************************************************************)
(* Line classification (closures of extractCodeBlocks).                    *)
(***************************************************************************)
\* \s* and \s+
Ws0 == Star(In(WS))

Ws1 == Plus(In(WS))

\* (word\s+)?
OptWord(w) == Opt(Cat(<< Lit(w), Ws1 >>))

\* [A-Za-z_$][\w$]*
Ident == Cat(<< In(IdStart), Star(In(IdCh)) >>)

\* \([^)]*\)
Parens == Cat(<< Lit(<<"(">>), Star(NotIn({")"})), Lit(<<")">>) >>)

KwExport    == <<"e","x","p","o","r","t">>

KwDefault   == <<"d","e","f","a","u","l","t">>

KwAsync     == <<"a","s","y","n","c">>

KwFunction  == <<"f","u","n","c","t","i","o","n">>

KwClass     == <<"c","l","a","s","s">>

KwInterface == <<"i","n","t","e","r","f","a","c","e">>

KwEnum      == <<"e","n","u","m">>

KwType      == <<"t","y","p","e">>

KwNamespace == <<"n","a","m","e","s","p","a","c","e">>

KwModule    == <<"m","o","d","u","l","e">>

KwAbstract  == <<"a","b","s","t","r","a","c","t">>

KwFinal     == <<"f","i","n","a","l">>

KwSealed    == <<"s","e","a","l","e","d">>

KwBase      == <<"b","a","s","e">>

KwMixin     == <<"m","i","x","i","n">>

KwExtension == <<"e","x","t","e","n","s","i","o","n">>

KwConst     == <<"c","o","n","s","t">>

KwLet       == <<"l","e","t">>

KwVar       == <<"v","a","r">>

Arrow       == <<"=",">">>

\* (const|let|var)
Binding == Alt(<< Lit(KwConst), Lit(KwLet), Lit(KwVar) >>)

\* The nine patterns of isCodeBlockStart, each anchored with ^.
StartPatterns ==
    << Cat(<< Ws0, OptWord(KwExport), OptWord(KwDefault), OptWord(KwAsync),
              Alt(<< Lit(KwFunction), Lit(KwClass), Lit(KwInterface), Lit(KwEnum),
                     Lit(KwType), Lit(KwNamespace), Lit(KwModule) >>),
              WordB >>),
       Cat(<< Ws0,
              Alt(<< Lit(KwAbstract), Lit(KwFinal), Lit(KwSealed), Lit(KwBase) >>),
              Ws1, Lit(KwClass), WordB >>),
       Cat(<< Ws0, Lit(KwMixin), WordB >>),
       Cat(<< Ws0, Lit(KwExtension), WordB >>),
       Cat(<< Ws0, OptWord(KwAsync), Lit(KwFunction), WordB >>),
       Cat(<< Ws0, OptWord(KwExport), Binding, Ws1, Ident, Ws0,
              Star(In(TypeCh)), Lit(<<"=">>), Ws0, OptWord(KwAsync),
              Alt(<< Parens, Ident >>), Ws0, Lit(Arrow) >>),
       Cat(<< Ws0, OptWord(KwExport), Binding, Ws1, Ident, Ws0,
              Lit(<<"=">>), Ws0, Lit(KwFunction), WordB >>),
       Cat(<< Ws0, Ident, Ws0, Lit(<<":">>), Ws0, OptWord(KwAsync),
              Alt(<< Cat(<< Lit(KwFunction), WordB >>),
                     Cat(<< Parens, Ws0, Lit(Arrow) >>),
                     Cat(<< Parens, Ws0, Lit(<<"{">>) >>) >>) >>),
       Cat(<< Ws0, Lit(KwExport), Ws1, Lit(KwDefault), Ws0, OptWord(KwAsync),
              Alt(<< Parens, Ident >>), Ws0, Lit(Arrow) >>) >>

\* patterns.some(re => re.test(text))
MatchesSomeStartPattern(text) ==
    \E k \in 1..Len(StartPatterns) : TestAnchored(StartPatterns[k], text)

\* The test's value for each line of S, as an explicit table.
RECURSIVE StartTableOver(_)
StartTableOver(S) ==
    IF S = {} THEN << >>
    ELSE LET l == CHOOSE x \in S : TRUE
         IN  (l :> MatchesSomeStartPattern(l)) @@ StartTableOver(S \ {l})

\* The test's value for each line of the model's files, evaluated once.
StartTable == StartTableOver(LineVocab)

isCodeBlockStart(text) ==
    IF text \in DOMAIN StartTable THEN StartTable[text]
    ELSE MatchesSomeStartPattern(text)

isCommentLine(text) ==
    LET trimmed == Trim(text)
    IN  \/ StartsWith(trimmed, <<"/","/">>)
        \/ StartsWith(trimmed, <<"/","*">>)
        \/ StartsWith(trimmed, <<"*">>)
        \/ StartsWith(trimmed, <<"#">>)

\* line.trim().startsWith("@")
isDecoratorLine(text) == StartsWith(Trim(text), <<"@">>)

\* line.trim() !== ""
isNonEmptyLine(text) == Trim(text) # << >>

(***************************************************************************)
(* Tag grammar: /\[([a-zA-Z0-9_-]+):([^\]]+)\]/g                           *)
(***************************************************************************)
\* The match of the tag pattern that starts at position p of s, as
\* << position of ":", position of "]" >>, or << >> when there is none.
\* Both quantifiers are greedy: the longest scope, then the longest list.
TagMatchAt(s, p) ==
    IF p > Len(s) \/ s[p] # "[" THEN << >>
    ELSE LET cand == { qe \in (1..Len(s)) \X (1..Len(s)) :
                          /\ qe[1] \in Ends(Plus(In(ScopeCh)), s, p + 1)
                          /\ s[qe[1]] = ":"
                          /\ qe[2] \in Ends(Plus(NotIn({"]"})), s, qe[1] + 1)
                          /\ s[qe[2]] = "]" }
         IN  IF cand = {} THEN << >>
             ELSE CHOOSE qe \in cand :
                      \A o \in cand :
                          o[1] < qe[1] \/ (o[1] = qe[1] /\ o[2] <= qe[2])

\* The successive matches of the /g pattern from position from on, as the
\* (scope, tags) pairs the loop of captureTagsFromComment computes from them.
RECURSIVE TagDeclarations(_, _)
TagDeclarations(s, from) ==
    IF from > Len(s) THEN << >>
    ELSE LET m == TagMatchAt(s, from)
         IN  IF m = << >> THEN TagDeclarations(s, from + 1)
             ELSE << [scope |-> SubSeq(s, from + 1, m[1] - 1),
                      tags  |-> TrimAndDropEmpty(
                                  SplitOn(SubSeq(s, m[1] + 1, m[2] - 1),
                                          {",", "|", "&"}))] >>
                  \o TagDeclarations(s, m[2] + 1)

\* The empty Record<string, string[]>
NoTags == << >>

\* Mutant of SetTag: a later declaration of a scope is merged into the
\* earlier one instead of replacing it.
SetTagMerging(tags, scope, value) ==
    [k \in (DOMAIN tags) \cup {scope} |->
        IF k # scope THEN tags[k]
        ELSE IF scope \in DOMAIN tags THEN tags[scope] \o value ELSE value]

\* tags[scope] = value
SetTag(tags, scope, value) ==
    [k \in (DOMAIN tags) \cup {scope} |-> IF k = scope THEN value ELSE tags[k]]

RECURSIVE ApplyDeclarations(_, _)
ApplyDeclarations(tags, decls) ==
    IF decls = << >> THEN tags
    ELSE ApplyDeclarations(SetTag(tags, Head(decls).scope, Head(decls).tags),
                           Tail(decls))

\* The declarations of each line of S, as an explicit table.
RECURSIVE DeclarationTableOver(_)
DeclarationTableOver(S) ==
    IF S = {} THEN << >>
    ELSE LET l == CHOOSE x \in S : TRUE
         IN  (l :> TagDeclarations(l, 1)) @@ DeclarationTableOver(S \ {l})

\* The declarations of each line of the model's files, evaluated once.
DeclarationTable == DeclarationTableOver(LineVocab)

DeclarationsOf(text) ==
    IF text \in DOMAIN DeclarationTable THEN DeclarationTable[text]
    ELSE TagDeclarations(text, 1)

\* A variant of captureTagsFromComment that stops after the first match of
\* the pattern.
captureTagsFromCommentFirstOnly(pendingTags, text) ==
    IF DeclarationsOf(text) = << >> THEN pendingTags
    ELSE ApplyDeclarations(pendingTags, << Head(DeclarationsOf(text)) >>)

\* captureTagsFromComment(text), as a function of the pendingTags it updates
captureTagsFromComment(pendingTags, text) ==
    ApplyDeclarations(pendingTags, DeclarationsOf(text))


(***************************************************************************)
(* extractCodeBlocks: the local variables as one record, the loop body as *)
(* a function of that record, the line and its zero-based index.          *)
(***************************************************************************)
\* null, the value of pendingCommentStartLine when no comment is pending
\* (line numbers are 1-based, so 0 is no line number)
NullLine == 0

NL == <<"\n">>

\* The variables declared at the top of extractCodeBlocks.
InitialExtractorState ==
    [ blocks                  |-> << >>,
      inCodeBlock             |-> FALSE,
      currentBlock            |-> << >>,
      currentBlockTags        |-> NoTags,
      blockStartLine          |-> 0,
      pendingCommentBuffer    |-> << >>,
      pendingTags             |-> NoTags,
      pendingCommentStartLine |-> NullLine,
      pendingDecoratorBuffer  |-> << >> ]

\* Object.keys(tags).length === 0
HasNoKeys(tags) == DOMAIN tags = {}

\* Mutant of ClearPending: the pending tags are left in place.
ClearPendingKeepingTags(st) ==
    [st EXCEPT !.pendingCommentBuffer    = << >>,
               !.pendingCommentStartLine = NullLine,
               !.pendingDecoratorBuffer  = << >>]

\* The four assignments that clear the pending annotation state.
ClearPending(st) ==
    [st EXCEPT !.pendingCommentBuffer    = << >>,
               !.pendingTags             = NoTags,
               !.pendingCommentStartLine = NullLine,
               !.pendingDecoratorBuffer  = << >>]

\* pendingCommentBuffer + pendingDecoratorBuffer + line + "\n"
OpeningText(st, line) ==
    st.pendingCommentBuffer \o st.pendingDecoratorBuffer \o line \o NL

\* Mutant of OpeningStartLine: the construct line is taken as start line.
OpeningStartLineAtConstruct(st, lineIndexZeroBased) == lineIndexZeroBased + 1

\* pendingCommentStartLine ?? (lineIndexZeroBased + 1)
OpeningStartLine(st, lineIndexZeroBased) ==
    IF st.pendingCommentStartLine # NullLine
    THEN st.pendingCommentStartLine
    ELSE lineIndexZeroBased + 1

\* A variant of startNewBlockIfTagged that opens the block and leaves the
\* pending annotation state as it was.
startNewBlockIfTaggedKeepingPending(st, line, lineIndexZeroBased) ==
    IF HasNoKeys(st.pendingTags) THEN st
    ELSE [st EXCEPT !.currentBlock     = OpeningText(st, line),
                    !.blockStartLine   = OpeningStartLine(st, lineIndexZeroBased),
                    !.currentBlockTags = st.pendingTags,
                    !.inCodeBlock      = TRUE]

startNewBlockIfTagged(st, line, lineIndexZeroBased) ==
    IF HasNoKeys(st.pendingTags) THEN st
    ELSE ClearPending(
           [st EXCEPT !.currentBlock     = OpeningText(st, line),
                      !.blockStartLine   = OpeningStartLine(st, lineIndexZeroBased),
                      !.currentBlockTags = st.pendingTags,
                      !.inCodeBlock      = TRUE])

\* The record pushed to blocks when a block is closed.
ClosedBlock(st) ==
    [code      |-> Trim(st.currentBlock),
     tags      |-> st.currentBlockTags,
     startLine |-> st.blockStartLine]

\* A construct-start line met inside a block: push the block, leave it.
CloseCurrentBlock(st) ==
    [st EXCEPT !.blocks           = Append(@, ClosedBlock(st)),
               !.currentBlock     = << >>,
               !.currentBlockTags = NoTags,
               !.inCodeBlock      = FALSE]

\* A variant of CommentStep that does not record the line number of the
\* first comment line.
CommentStepWithoutStartLine(st, line, idx) ==
    [st EXCEPT !.pendingCommentBuffer = @ \o line \o NL,
               !.pendingTags = captureTagsFromComment(@, line)]

\* A comment line met outside a block.
CommentStep(st, line, idx) ==
    [st EXCEPT !.pendingCommentStartLine =
                   IF st.pendingCommentBuffer = << >> THEN idx + 1 ELSE @,
               !.pendingCommentBuffer = @ \o line \o NL,
               !.pendingTags = captureTagsFromComment(@, line)]

\* A variant of KeepsDecorator that looks at the pending tags only.
KeepsDecoratorOnTagsOnly(st) == ~HasNoKeys(st.pendingTags)

\* The condition under which a decorator line is kept.
KeepsDecorator(st) ==
    st.pendingCommentBuffer # << >> \/ ~HasNoKeys(st.pendingTags)

\* pendingDecoratorBuffer += line + "\n"
DecoratorStep(st, line) ==
    [st EXCEPT !.pendingDecoratorBuffer = @ \o line \o NL]

\* A variant of ConstructStep that keeps the pending comments when no block
\* is opened.
ConstructStepKeepingStrayComments(st, line, idx) ==
    startNewBlockIfTagged(st, line, idx)

\* A construct-start line met outside a block.
ConstructStep(st, line, idx) ==
    LET opened == startNewBlockIfTagged(st, line, idx)
    IN  IF ~opened.inCodeBlock THEN ClearPending(opened) ELSE opened

\* A variant of IdleStep in which a blank line clears the pending state as
\* any other line does.
IdleStepResettingOnBlank(st, line, idx) ==
    IF isCommentLine(line) THEN CommentStep(st, line, idx)
    ELSE IF isDecoratorLine(line) /\ KeepsDecorator(st) THEN DecoratorStep(st, line)
    ELSE IF isCodeBlockStart(line) THEN ConstructStep(st, line, idx)
    ELSE IF st.pendingDecoratorBuffer # << >> THEN DecoratorStep(st, line)
    ELSE ClearPending(st)

\* The part of the loop body that runs when no block is open (the normal
\* flow below the inCodeBlock test).
IdleStep(st, line, idx) ==
    IF isCommentLine(line) THEN CommentStep(st, line, idx)
    ELSE IF isDecoratorLine(line) /\ KeepsDecorator(st) THEN DecoratorStep(st, line)
    ELSE IF isCodeBlockStart(line) THEN ConstructStep(st, line, idx)
    ELSE IF st.pendingDecoratorBuffer # << >> THEN DecoratorStep(st, line)
    ELSE IF isNonEmptyLine(line) THEN ClearPending(st)
    ELSE st

\* A variant of the loop body in which a comment line closes the open block
\* as a construct-start line does.
LineStepClosingOnComment(st, line, idx) ==
    IF st.inCodeBlock
    THEN IF isCodeBlockStart(line) \/ isCommentLine(line)
         THEN IdleStep(CloseCurrentBlock(st), line, idx)
         ELSE [st EXCEPT !.currentBlock = @ \o line \o NL]
    ELSE IdleStep(st, line, idx)

\* A variant of the loop body in which a comment line read inside a block is
\* appended to the block and collected as a pending comment as well.
LineStepCollectingInBlock(st, line, idx) ==
    IF st.inCodeBlock
    THEN IF isCodeBlockStart(line)
         THEN IdleStep(CloseCurrentBlock(st), line, idx)
         ELSE IF isCommentLine(line)
         THEN CommentStep([st EXCEPT !.currentBlock = @ \o line \o NL], line, idx)
         ELSE [st EXCEPT !.currentBlock = @ \o line \o NL]
    ELSE IdleStep(st, line, idx)

\* A variant of the loop body in which an open block takes every line, a
\* construct-start line included.
LineStepNeverClosing(st, line, idx) ==
    IF st.inCodeBlock
    THEN [st EXCEPT !.currentBlock = @ \o line \o NL]
    ELSE IdleStep(st, line, idx)

\* One iteration of the for loop on lines[idx] (idx is zero-based).
LineStep(st, line, idx) ==
    IF st.inCodeBlock
    THEN IF isCodeBlockStart(line)
         THEN IdleStep(CloseCurrentBlock(st), line, idx)
         ELSE [st EXCEPT !.currentBlock = @ \o line \o NL]
    ELSE IdleStep(st, line, idx)

\* A variant of FinalBlocks that returns the closed blocks only.
FinalBlocksWithoutOpenBlock(st) == st.blocks

\* The statements after the loop: the value extractCodeBlocks returns.
FinalBlocks(st) ==
    IF st.inCodeBlock /\ Trim(st.currentBlock) # << >>
    THEN Append(st.blocks, ClosedBlock(st))
    ELSE st.blocks

RECURSIVE RunLines(_, _, _)
RunLines(st, ls, idx) ==
    IF idx >= Len(ls) THEN st ELSE RunLines(LineStep(st, ls[idx + 1], idx), ls, idx + 1)

\* extractCodeBlocks(content) as a function of the file's text
extractCodeBlocks(text) ==
    FinalBlocks(RunLines(InitialExtractorState, SplitOn(text, {"\n"}), 0))

(***************************************************************************)
(* The files the extractor is run on: every file of 1..MaxLines lines of   *)
(* LineVocab, and longer files in which two blocks are opened.             *)
(***************************************************************************)
\* Files of five and six lines: an annotated construct, a construct that
\* closes its block, a comment line, a construct and possibly a body line.
LongFiles ==
    { JoinWith(<< a, LineFunction, m, b, LineFunction >> \o t, "\n") :
        a \in { LineTagA, LineTwoTags },
        m \in { LineFunction, LineArrow },
        b \in { LineTagA, LineTagB, LinePlainComment },
        t \in { << >>, << LineBody >> } }

Files ==
    { JoinWith(ls, "\n") :
        ls \in UNION { [1..n -> LineVocab] : n \in 1..MaxLines } }
    \cup LongFiles

(***************************************************************************)
(* parseQuery and matchesQuery.                                            *)
(***************************************************************************)
\* The match of /\[([^\]]+)\]/ that starts at position p of q, as the
\* position of its closing bracket, or 0 when there is none (greedy: the
\* longest run of characters other than "]").
GroupMatchAt(q, p) ==
    IF p > Len(q) \/ q[p] # "[" THEN 0
    ELSE LET cand == { e \in Ends(Plus(NotIn({"]"})), q, p + 1) :
                          e <= Len(q) /\ q[e] = "]" }
         IN  IF cand = {} THEN 0
             ELSE CHOOSE e \in cand : \A o \in cand : o <= e

\* query.match(/\[([^\]]+)\]/g) || []: the successive matches, left to right
RECURSIVE BracketGroups(_, _)
BracketGroups(q, from) ==
    IF from > Len(q) THEN << >>
    ELSE LET e == GroupMatchAt(q, from)
         IN  IF e = 0 THEN BracketGroups(q, from + 1)
             ELSE << SubSeq(q, from, e) >> \o BracketGroups(q, e + 1)

\* The callback of scopeMatches.map: one bracket group to one requirement.
ParseGroup(match) ==
    LET inner     == SubSeq(match, 2, Len(match) - 1)
        parts     == SplitOn(inner, {":"})
        scopeName == Head(parts)
        tagString == JoinWith(Tail(parts), ":")
    IN  [name |-> Trim(scopeName),
         tags |-> TrimAndDropEmpty(SplitOn(tagString, {"|", "&"}))]

\* Mutant of QueryOperator: "&" decides alone.
QueryOperatorAmpersandWins(q) ==
    IF Includes(q, "&") THEN "and" ELSE "or"

\* hasAnd && !hasOr ? "and" : "or"
QueryOperator(q) ==
    IF Includes(q, "&") /\ ~Includes(q, "|") THEN "and" ELSE "or"

parseQuery(q) ==
    LET scopeMatches == BracketGroups(q, 1)
    IN  [scopes   |-> [k \in 1..Len(scopeMatches) |-> ParseGroup(scopeMatches[k])],
         operator |-> QueryOperator(q)]

\* blockTags[scope.name] || []
BlockScopeTags(blockTags, name) ==
    IF name \in DOMAIN blockTags THEN blockTags[name] ELSE << >>

\* A variant of ScopeMatches that asks for every tag of the requirement.
ScopeMatchesEveryTag(blockTags, scope) ==
    LET blockScopeTags == BlockScopeTags(blockTags, scope.name)
    IN  \A k \in 1..Len(scope.tags) :
            \E m \in 1..Len(blockScopeTags) : blockScopeTags[m] = scope.tags[k]

\* scope.tags.some(tag => blockScopeTags.includes(tag))
ScopeMatches(blockTags, scope) ==
    LET blockScopeTags == BlockScopeTags(blockTags, scope.name)
    IN  \E k \in 1..Len(scope.tags) :
            \E m \in 1..Len(blockScopeTags) : blockScopeTags[m] = scope.tags[k]

\* Mutant of CombineMatches: every and some are exchanged.
CombineMatchesExchanged(blockTags, queryScopes, operator) ==
    IF operator = "and"
    THEN \E k \in 1..Len(queryScopes) : ScopeMatches(blockTags, queryScopes[k])
    ELSE \A k \in 1..Len(queryScopes) : ScopeMatches(blockTags, queryScopes[k])

\* operator === "and" ? scopeMatches.every(Boolean) : scopeMatches.some(Boolean)
CombineMatches(blockTags, queryScopes, operator) ==
    IF operator = "and"
    THEN \A k \in 1..Len(queryScopes) : ScopeMatches(blockTags, queryScopes[k])
    ELSE \E k \in 1..Len(queryScopes) : ScopeMatches(blockTags, queryScopes[k])

\* A variant of matchesQuery without the early return for an empty
\* requirement list.
matchesQueryWithoutEmptyCase(blockTags, queryScopes, operator) ==
    CombineMatches(blockTags, queryScopes, operator)

\* A variant of matchesQuery that leaves out the requirements without tags.
matchesQueryIgnoringEmptyGroups(blockTags, queryScopes, operator) ==
    LET kept == SelectSeq(queryScopes, LAMBDA sc : sc.tags # << >>)
    IN  IF Len(kept) = 0 THEN TRUE
        ELSE CombineMatches(blockTags, kept, operator)

\* if (queryScopes.length === 0) return true, then every / some
matchesQuery(blockTags, queryScopes, operator) ==
    IF Len(queryScopes) = 0 THEN TRUE
    ELSE CombineMatches(blockTags, queryScopes, operator)

(***************************************************************************)
(* The queries and the block tag sets the parser and the matcher are run  *)
(* on: every query of 0..MaxPieces pieces of QueryPieces, and every tag   *)
(* set over the scopes a and b below.                                      *)
(***************************************************************************)
\* [a:x]
PieceAX == <<"[","a",":","x","]">>

\* [b:y]
PieceBY == <<"[","b",":","y","]">>

\* [a:x,y]
PieceAXcommaY == <<"[","a",":","x",",","y","]">>

\* [a:x|y]
PieceAXorY == <<"[","a",":","x","|","y","]">>

\* [a:x&y]
PieceAXandY == <<"[","a",":","x","&","y","]">>

\* [a:]
PieceANoTags == <<"[","a",":","]">>

\* [a]
PieceAOnly == <<"[","a","]">>

\* [ b : y ]
PieceSpacedBY == <<"["," ","b"," ",":"," ","y"," ","]">>

PieceAnd == <<"&">>

PieceOr == <<"|">>

QueryPieces ==
    { PieceAX, PieceBY, PieceAXcommaY, PieceAXorY, PieceAXandY,
      PieceANoTags, PieceAOnly, PieceSpacedBY, PieceAnd, PieceOr }

RECURSIVE Concat(_)
Concat(parts) ==
    IF parts = << >> THEN << >> ELSE Head(parts) \o Concat(Tail(parts))

Queries ==
    { Concat(ps) : ps \in UNION { [1..n -> QueryPieces] : n \in 0..MaxPieces } }

ScopeA == <<"a">>

ScopeB == <<"b">>

TagX == <<"x">>

TagY == <<"y">>

\* The tag set that declares scope a with list ta and scope b with list tb.
TagSetOf(ta, tb) == [k \in {ScopeA, ScopeB} |-> IF k = ScopeA THEN ta ELSE tb]

TagLists == { <<TagX>>, <<TagY>>, <<TagX, TagY>>, << >> }

BlockTagSets ==
    { TagSetOf(ta, tb) : ta \in TagLists, tb \in { <<TagX>>, <<TagY>> } }
    \cup { [k \in {ScopeA} |-> ta] : ta \in TagLists }
    \cup { [k \in {ScopeB} |-> tb] : tb \in { <<TagX>>, <<TagY>> } }
    \cup { NoTags }

(***************************************************************************)
(* Paths and ignore rules: the String and path methods scanFiles,          *)
(* shouldIgnore and parseGitignore use, and those three functions' pure   *)
(* parts.                                                                  *)
(***************************************************************************)
\* String.prototype.endsWith
EndsWith(s, suffix) ==
    Len(suffix) <= Len(s) /\ SubSeq(s, Len(s) - Len(suffix) + 1, Len(s)) = suffix

\* String.prototype.indexOf, 1-based; 0 when sub does not occur in s
IndexOfText(s, sub) ==
    LET hits == { n \in 1..(Len(s) - Len(sub) + 1) :
                      SubSeq(s, n, n + Len(sub) - 1) = sub }
    IN  IF hits = {} THEN 0
        ELSE CHOOSE n \in hits : \A m \in hits : n <= m

\* String.prototype.includes for a string needle
IncludesText(s, sub) == IndexOfText(s, sub) # 0

\* String.prototype.replace(sub, "") for a string sub: the first occurrence
\* of sub is removed, wherever it stands.
RemoveFirst(s, sub) ==
    LET n == IndexOfText(s, sub)
    IN  IF n = 0 THEN s
        ELSE SubSeq(s, 1, n - 1) \o SubSeq(s, n + Len(sub), Len(s))

\* String.prototype.replace(/^\//, "")
StripLeadingSlash(s) ==
    IF s # << >> /\ Head(s) = "/" THEN Tail(s) ELSE s

\* filePath.replace(rootPath, "").replace(/^\//, "")
RelativePath(filePath, rootPath) ==
    StripLeadingSlash(RemoveFirst(filePath, rootPath))

\* path.join(dir, name) for a normalized dir and a plain entry name
join(dir, name) == dir \o <<"/">> \o name

\* new RegExp(pattern.replace(/\*/g, ".*")) for a pattern of letters, digits,
\* "/", "_", "." and "*": "*" has become ".*", "." is the wildcard it is in a
\* regular expression, every other character stands for itself.
RECURSIVE GitignoreRegexParts(_)
GitignoreRegexParts(pattern) ==
    IF pattern = << >> THEN << >>
    ELSE << (IF Head(pattern) = "*" THEN Star(NotIn({"\n", "\r"}))
             ELSE IF Head(pattern) = "." THEN NotIn({"\n", "\r"})
             ELSE Lit(<< Head(pattern) >>)) >>
         \o GitignoreRegexParts(Tail(pattern))

\* RegExp.prototype.test for a pattern without anchor: a match may start at
\* any position.
TestUnanchored(r, s) == \E n \in 1..(Len(s) + 1) : Ends(r, s, n) # {}

\* A variant of the loop's turn in which a directory rule matches at the
\* start of the path only.
PatternIgnoresAtStartOnly(relativePath, pattern) ==
    IF EndsWith(pattern, <<"/">>)
    THEN StartsWith(relativePath, pattern)
    ELSE IF Includes(pattern, "*")
    THEN TestUnanchored(Cat(GitignoreRegexParts(pattern)), relativePath)
    ELSE \/ relativePath = pattern
         \/ IncludesText(relativePath, <<"/">> \o pattern)

\* One turn of the loop of shouldIgnore: does this pattern ignore the path?
PatternIgnores(relativePath, pattern) ==
    IF EndsWith(pattern, <<"/">>)
    THEN \/ StartsWith(relativePath, pattern)
         \/ IncludesText(relativePath, <<"/">> \o pattern)
    ELSE IF Includes(pattern, "*")
    THEN TestUnanchored(Cat(GitignoreRegexParts(pattern)), relativePath)
    ELSE \/ relativePath = pattern
         \/ IncludesText(relativePath, <<"/">> \o pattern)

shouldIgnore(filePath, rootPath, gitignorePatterns) ==
    LET relativePath == RelativePath(filePath, rootPath)
    IN  \E n \in 1..Len(gitignorePatterns) :
            PatternIgnores(relativePath, gitignorePatterns[n])

\* .filter(line => line && !line.startsWith("#"))
RECURSIVE DropEmptyAndComments(_)
DropEmptyAndComments(parts) ==
    IF parts = << >> THEN << >>
    ELSE (IF Head(parts) = << >> \/ StartsWith(Head(parts), <<"#">>)
          THEN << >> ELSE << Head(parts) >>)
         \o DropEmptyAndComments(Tail(parts))

\* .map(line => line.trim())
TrimAll(parts) == [n \in 1..Len(parts) |-> Trim(parts[n])]

\* parseGitignore for the .gitignore file gi of the root: a record with
\* exists (the read succeeds) and text.  A failed read gives no rules.
parseGitignore(gi) ==
    IF gi.exists
    THEN DropEmptyAndComments(TrimAll(SplitOn(gi.text, {"\n"})))
    ELSE << >>

\* The default of the extensions parameter of scanFiles
DefaultExtensions ==
    << <<".","j","s">>, <<".","t","s">>, <<".","j","s","x">>, <<".","t","s","x">>, <<".","d","a","r","t">> >>

\* extensions.some(ext => entry.name.endsWith(ext))
HasExtension(name, extensions) ==
    \E n \in 1..Len(extensions) : EndsWith(name, extensions[n])

\* A variant of the exclusion test that lets build through.
IsExcludedDirectoryNameButBuild(name) ==
    \/ StartsWith(name, <<".">>)
    \/ name = <<"n","o","d","e","_","m","o","d","u","l","e","s">>
    \/ name = <<"d","i","s","t">>

\* The directory names scanFiles never descends into:
\* name.startsWith("."), "node_modules", "dist", "build"
IsExcludedDirectoryName(name) ==
    \/ StartsWith(name, <<".">>)
    \/ name = <<"n","o","d","e","_","m","o","d","u","l","e","s">>
    \/ name = <<"d","i","s","t">>
    \/ name = <<"b","u","i","l","d">>

(***************************************************************************)
(* The directory trees, files, ignore files and queries the extract       *)
(* operation is run on.  A tree is the set of its files, each a sequence  *)
(* of entry names below the root; the directories are those the files lie *)
(* in.                                                                     *)
(***************************************************************************)
\* Largest number of files of a scanned tree.
MaxFiles == 2

\* folderPath: an absolute, normalized path
RootPath == <<"/","p">>

\* .git
NameGit == <<".","g","i","t">>

\* a.ts
NameATs == <<"a",".","t","s">>

\* b.ts
NameBTs == <<"b",".","t","s">>

\* build
NameBuild == <<"b","u","i","l","d">>

\* c.js
NameCJs == <<"c",".","j","s">>

\* dist
NameDist == <<"d","i","s","t">>

\* n.md
NameNMd == <<"n",".","m","d">>

\* node_modules
NameNodeModules == <<"n","o","d","e","_","m","o","d","u","l","e","s">>

\* out
NameOut == <<"o","u","t">>

\* src
NameSrc == <<"s","r","c">>

\* The order in which a directory listing yields its entries.
NameOrder ==
    << NameGit, NameATs, NameBTs, NameBuild, NameCJs, NameDist, NameNMd, NameNodeModules, NameOut, NameSrc >>

FileUniverse ==
    { << NameATs >>, << NameBTs >>, << NameNMd >>,
      << NameOut, NameATs >>, << NameSrc, NameCJs >>,
      << NameSrc, NameOut, NameBTs >>, << NameBuild, NameATs >>,
      << NameGit, NameBTs >>, << NameNodeModules, NameATs >>,
      << NameSrc, NameDist, NameBTs >> }

Trees == { F \in SUBSET FileUniverse : Cardinality(F) <= MaxFiles }

\* // [a:y]
LineTagAY == <<"/","/"," ","[","a",":","y","]">>

\* One block tagged [a:x].
FileAuth == JoinWith(<< LineTagA, LineFunction >>, "\n")

\* One block tagged [a:y].
FilePayment == JoinWith(<< LineTagAY, LineFunction >>, "\n")

\* Two blocks, tagged [a:x] and [a:y], an untagged construct between them.
FileBoth ==
    JoinWith(<< LineTagA, LineFunction, LineFunction, LineTagAY, LineFunction >>,
             "\n")

\* One block tagged [a:x], closed by a second construct; the file ends with
\* a comment line whose tags [a:y] are pending when the text ends.
FileDangling ==
    JoinWith(<< LineTagA, LineFunction, LineFunction, LineTagAY >>, "\n")

\* No block: a construct without a comment above it, and a body line.
FileBare == JoinWith(<< LineFunction, LineBody >>, "\n")

FileContents == << FileAuth, FilePayment, FileBoth, FileDangling, FileBare >>

\* The text of the file at path f: given by the file's name, but for
\* out/a.ts and src/out/b.ts, which the walker lists one after the other.
ContentOf(f) ==
    LET name == f[Len(f)]
    IN  IF f = << NameOut, NameATs >> THEN FileDangling
        ELSE IF f = << NameSrc, NameOut, NameBTs >> THEN FileBare
        ELSE IF name = NameBTs THEN FilePayment
        ELSE IF name = NameCJs THEN FileBoth
        ELSE FileAuth

\* The .gitignore files of the root: none, one with a comment line, a blank
\* line, padded lines and the directory rules out/ and build/, and one with a
\* wildcard rule and a plain rule.
GitignoreAbsent == [exists |-> FALSE, text |-> << >>]

GitignoreDirectories ==
    [exists |-> TRUE, text |-> <<"#"," ","c","\n"," ","o","u","t","/"," ","\n","\n","b","u","i","l","d","/">>]

GitignoreWildcard ==
    [exists |-> TRUE, text |-> <<"*",".","j","s","\n","b",".","t","s">>]

GitignoreFiles == { GitignoreAbsent, GitignoreDirectories, GitignoreWildcard }

\* [a:y]
PieceAY == <<"[","a",":","y","]">>

\* The queries: the empty one, [a:x], [a:x]|[a:y] and [b:y].
ExtractQueries ==
    { << >>, PieceAX, PieceAX \o PieceOr \o PieceAY, PieceBY }

\* extractCodeBlocks of each text of a sequence of texts, as an explicit table.
RECURSIVE ExtractTableOver(_)
ExtractTableOver(texts) ==
    IF texts = << >> THEN << >>
    ELSE (Head(texts) :> extractCodeBlocks(Head(texts)))
         @@ ExtractTableOver(Tail(texts))

\* The blocks of each file text of the model, evaluated once.
ExtractTable == ExtractTableOver(FileContents)

BlocksOf(text) ==
    IF text \in DOMAIN ExtractTable THEN ExtractTable[text]
    ELSE extractCodeBlocks(text)

\* parseQuery of each query of a set, as an explicit table.
RECURSIVE ParseTableOver(_)
ParseTableOver(S) ==
    IF S = {} THEN << >>
    ELSE LET x == CHOOSE y \in S : TRUE
         IN  (x :> parseQuery(x)) @@ ParseTableOver(S \ {x})

\* What parseQuery returns for each query of the model, evaluated once.
ParseTable == ParseTableOver(ExtractQueries)

ParsedQuery(q) ==
    IF q \in DOMAIN ParseTable THEN ParseTable[q] ELSE parseQuery(q)

\* parseGitignore of each ignore file of a set, as an explicit table.
RECURSIVE RulesTableOver(_)
RulesTableOver(S) ==
    IF S = {} THEN << >>
    ELSE LET x == CHOOSE y \in S : TRUE
         IN  (x :> parseGitignore(x)) @@ RulesTableOver(S \ {x})

\* What parseGitignore returns for each ignore file of the model, evaluated
\* once.
RulesTable == RulesTableOver(GitignoreFiles)

RulesOf(gi) ==
    IF gi \in DOMAIN RulesTable THEN RulesTable[gi] ELSE parseGitignore(gi)

\* The names of the entries of directory node in tree F.
Children(F, node) ==
    { f[Len(node) + 1] : f \in { g \in F : /\ Len(g) > Len(node)
                                           /\ SubSeq(g, 1, Len(node)) = node } }

\* readdir(dir, { withFileTypes: true }): the entries of directory node, in
\* listing order, each with its name and kind.
RECURSIVE EntriesAmong(_, _, _)
EntriesAmong(F, node, names) ==
    IF names = << >> THEN << >>
    ELSE (IF Head(names) \in Children(F, node)
          THEN << [name |-> Head(names),
                   isFile |-> (node \o << Head(names) >>) \in F,
                   isDirectory |-> (node \o << Head(names) >>) \notin F] >>
          ELSE << >>)
         \o EntriesAmong(F, node, Tail(names))

readdir(F, node) == EntriesAmong(F, node, NameOrder)

\* The path string of the file or directory whose entry names are node.
RECURSIVE PathOf(_)
PathOf(node) ==
    IF node = << >> THEN RootPath
    ELSE join(PathOf(SubSeq(node, 1, Len(node) - 1)), node[Len(node)])

\* The path strings of the files and directories of the model's trees.
ScanPaths ==
    UNION { { PathOf(SubSeq(f, 1, n)) : n \in 1..Len(f) } : f \in FileUniverse }

\* shouldIgnore of each pair of a path and a rule list of a set, as an
\* explicit table.
RECURSIVE IgnoreTableOver(_)
IgnoreTableOver(S) ==
    IF S = {} THEN << >>
    ELSE LET x == CHOOSE y \in S : TRUE
         IN  (x :> shouldIgnore(x[1], RootPath, x[2])) @@ IgnoreTableOver(S \ {x})

\* What shouldIgnore returns for each path and each rule list of the model,
\* evaluated once.
IgnoreTable ==
    IgnoreTableOver(ScanPaths \X { RulesTable[g] : g \in GitignoreFiles })

IsIgnored(filePath, gitignorePatterns) ==
    IF << filePath, gitignorePatterns >> \in DOMAIN IgnoreTable
    THEN IgnoreTable[<< filePath, gitignorePatterns >>]
    ELSE shouldIgnore(filePath, RootPath, gitignorePatterns)

(***************************************************************************)
(* State.                                                                  *)
(***************************************************************************)
VARIABLES
    content,   \* the text extractCodeBlocks is called with
    lines,     \* content.split("\n")
    i,         \* the loop index: lines[0..i-1] have been processed
    ex,        \* the local variables of extractCodeBlocks
    hist,      \* history: hist[k] is ex as it was when line k (1-based) was read
    returned,  \* the list extractCodeBlocks returned
    pc,        \* "scan" in the loop, "done" after the return, "idle" when not run
    query,     \* the query string parseQuery is called with
    block,     \* the tag set of the block matchesQuery is called with
    parsed,    \* what parseQuery returned: scopes and operator
    matches,   \* what matchesQuery returned
    qpc,       \* "query", then "parsed", then "matched"; "idle" when not run
    fsFiles,          \* the tree below folderPath: the set of its files
    fsUnreadable,     \* the files whose readFile fails
    fsUnlistable,     \* the directories whose readdir fails
    fsGitignore,      \* the .gitignore file of the root
    respectGitignore, \* the respectGitignore argument
    stack,            \* the scanFiles calls in progress, innermost last
    files,            \* what the outermost scanFiles call returned
    fileIndex,        \* the files processed by the handler's loop so far
    result,           \* the handler's result text
    matchCount,       \* the handler's matchCount
    hpc,              \* "scan", "loop", "done"; "idle" when not run
    gitignoreReads,   \* the reads of .gitignore this invocation has made
    suspended,        \* the locals of a second invocation that is not running
    tplExists,        \* code-indexing-instructions.md exists at the root
    tplText,          \* its content
    tplReadable,      \* readFile of it succeeds when it exists
    tplWritable,      \* writeFile of it succeeds
    tplCalls,         \* the calls of the instructions-template operation made
    tplWrites,        \* the writeFile calls that succeeded
    tplOutcome        \* the last call: "Created", "Found existing", "failed"

exVars == << content, lines, i, ex, hist, returned, pc >>

queryVars == << query, block, parsed, matches, qpc >>

handlerVars == << fsFiles, fsUnreadable, fsUnlistable, fsGitignore,
                 respectGitignore, stack, files, fileIndex, result,
                 matchCount, hpc, gitignoreReads, suspended >>

vars == << content, lines, i, ex, hist, returned, pc,
           query, block, parsed, matches, qpc,
           fsFiles, fsUnreadable, fsUnlistable, fsGitignore,
           respectGitignore, stack, files, fileIndex, result,
           matchCount, hpc, gitignoreReads, suspended,
           tplExists, tplText, tplReadable, tplWritable, tplCalls,
           tplWrites, tplOutcome >>

templateVars == << tplExists, tplText, tplReadable, tplWritable, tplCalls,
                  tplWrites, tplOutcome >>

\* The instructions-template operation at rest.
TemplateIdle ==
    /\ tplExists = FALSE
    /\ tplText = "none"
    /\ tplReadable = FALSE
    /\ tplWritable = FALSE
    /\ tplCalls = 0
    /\ tplWrites = 0
    /\ tplOutcome = "idle"

\* The arguments and local variables of an invocation of the extract
\* operation that has not been made.
NoInvocation ==
    [query            |-> << >>,
     parsed           |-> [scopes |-> << >>, operator |-> "or"],
     respectGitignore |-> FALSE,
     stack            |-> << >>,
     files            |-> << >>,
     fileIndex        |-> 0,
     result           |-> << >>,
     matchCount       |-> 0,
     hpc              |-> "idle",
     gitignoreReads   |-> 0]

\* The extract operation at rest.
HandlerIdle ==
    /\ fsFiles = {}
    /\ fsUnreadable = {}
    /\ fsUnlistable = {}
    /\ fsGitignore = GitignoreAbsent
    /\ respectGitignore = FALSE
    /\ stack = << >>
    /\ files = << >>
    /\ fileIndex = 0
    /\ result = << >>
    /\ matchCount = 0
    /\ hpc = "idle"
    /\ gitignoreReads = 0
    /\ suspended = NoInvocation

\* The query side at rest.
QueryIdle ==
    /\ query = << >>
    /\ block = NoTags
    /\ parsed = [scopes |-> << >>, operator |-> "or"]
    /\ matches = FALSE
    /\ qpc = "idle"

\* The extractor at rest.
ExtractorIdle ==
    /\ content = << >>
    /\ lines = << >>
    /\ i = 0
    /\ ex = InitialExtractorState
    /\ hist = << >>
    /\ returned = << >>
    /\ pc = "idle"

(***************************************************************************)
(* Spec: extractCodeBlocks on one file, one loop iteration per step.      *)
(***************************************************************************)
Init ==
    /\ content \in Files
    /\ lines = SplitOn(content, {"\n"})
    /\ i = 0
    /\ ex = InitialExtractorState
    /\ hist = << >>
    /\ returned = << >>
    /\ pc = "scan"
    /\ QueryIdle
    /\ HandlerIdle
    /\ TemplateIdle

\* One iteration of the loop.
ProcessLine ==
    /\ pc = "scan"
    /\ i < Len(lines)
    /\ ex' = LineStep(ex, lines[i + 1], i)
    /\ hist' = Append(hist, ex)
    /\ i' = i + 1
    /\ UNCHANGED << content, lines, returned, pc >>
    /\ UNCHANGED queryVars
    /\ UNCHANGED handlerVars
    /\ UNCHANGED templateVars

\* The loop has ended: force-close an open block and return.
ReturnBlocks ==
    /\ pc = "scan"
    /\ i = Len(lines)
    /\ returned' = FinalBlocks(ex)
    /\ pc' = "done"
    /\ UNCHANGED << content, lines, i, ex, hist >>
    /\ UNCHANGED queryVars
    /\ UNCHANGED handlerVars
    /\ UNCHANGED templateVars

Next == ProcessLine \/ ReturnBlocks

Spec == Init /\ [][Next]_vars

(***************************************************************************)
(* SpecQuery: parseQuery on one query, then matchesQuery on one block.    *)
(***************************************************************************)
InitQuery ==
    /\ query \in Queries
    /\ block \in BlockTagSets
    /\ parsed = [scopes |-> << >>, operator |-> "or"]
    /\ matches = FALSE
    /\ qpc = "query"
    /\ ExtractorIdle
    /\ HandlerIdle
    /\ TemplateIdle

\* const { scopes, operator } = parseQuery(query)
ParseQueryStep ==
    /\ qpc = "query"
    /\ parsed' = parseQuery(query)
    /\ qpc' = "parsed"
    /\ UNCHANGED << query, block, matches >>
    /\ UNCHANGED exVars
    /\ UNCHANGED handlerVars
    /\ UNCHANGED templateVars

\* matchesQuery(block.tags, scopes, operator)
MatchStep ==
    /\ qpc = "parsed"
    /\ matches' = matchesQuery(block, parsed.scopes, parsed.operator)
    /\ qpc' = "matched"
    /\ UNCHANGED << query, block, parsed >>
    /\ UNCHANGED exVars
    /\ UNCHANGED handlerVars
    /\ UNCHANGED templateVars

NextQuery == ParseQueryStep \/ MatchStep

SpecQuery == InitQuery /\ [][NextQuery]_vars

(***************************************************************************)
(* SpecExtract: the extract-code-with-index handler on one tree.  The     *)
(* traversal (scanFiles) is a stack of calls; each call lists its         *)
(* directory, visits the entries one by one and returns its files.  Then  *)
(* the handler's loop takes one file per step and the handler responds.   *)
(* Nothing inside the handler's outer try can throw (scanFiles and the    *)
(* loop catch their own failures), so its catch has no step here.         *)
(***************************************************************************)
\* The scanFiles call for the directory node, at its first statement.
NewCall(dir, node) ==
    [dir |-> dir, node |-> node, listed |-> FALSE, patterns |-> << >>,
     entries |-> << >>, files |-> << >>]

\* "No matching code found"
Sentinel == <<"N","o"," ","m","a","t","c","h","i","n","g"," ","c","o","d","e"," ","f","o","u","n","d">>

\* The fence of an entry: three backquote characters in the source, written
\* here with a character that occurs in no file and no path of the model.
Fence == <<"~","~","~">>

\* The text of one entry: the File line, then the block's code in a fence.
EntryText(relativePath, code) ==
    <<"*","*","F","i","l","e",":","*","*"," ">> \o relativePath
    \o <<"\n">> \o Fence \o <<"\n">> \o code \o <<"\n">> \o Fence

\* A variant of the inner loop that puts each new entry in front of the
\* result.
RECURSIVE AppendEntriesInFront(_, _, _)
AppendEntriesInFront(text, relativePath, matchingBlocks) ==
    IF matchingBlocks = << >> THEN text
    ELSE AppendEntriesInFront(
             EntryText(relativePath, Head(matchingBlocks).code)
                 \o (IF text # << >> THEN <<"\n","\n">> \o text ELSE text),
             relativePath, Tail(matchingBlocks))

\* The inner loop of the handler: one entry per matching block, a blank
\* line before every entry but the first of the result.
RECURSIVE AppendEntries(_, _, _)
AppendEntries(text, relativePath, matchingBlocks) ==
    IF matchingBlocks = << >> THEN text
    ELSE AppendEntries(
             (IF text # << >> THEN text \o <<"\n","\n">> ELSE text)
                 \o EntryText(relativePath, Head(matchingBlocks).code),
             relativePath, Tail(matchingBlocks))

\* blocks.filter(block => matchesQuery(block.tags, scopes, operator))
RECURSIVE MatchingBlocks(_, _, _)
MatchingBlocks(blocks, scopes, operator) ==
    IF blocks = << >> THEN << >>
    ELSE (IF matchesQuery(Head(blocks).tags, scopes, operator)
          THEN << Head(blocks) >> ELSE << >>)
         \o MatchingBlocks(Tail(blocks), scopes, operator)

\* The file of tree F whose path string is path.
FileAt(F, path) == CHOOSE f \in F : PathOf(f) = path

InitExtract ==
    /\ fsFiles \in Trees
    /\ fsUnreadable \in { U \in SUBSET fsFiles : Cardinality(U) <= 1 }
    /\ fsUnlistable \in { {}, { << >> }, { << NameSrc >> } }
    /\ fsGitignore \in GitignoreFiles
    /\ respectGitignore \in BOOLEAN
    /\ query \in ExtractQueries
    /\ parsed = [scopes |-> << >>, operator |-> "or"]
    /\ stack = << NewCall(RootPath, << >>) >>
    /\ files = << >>
    /\ fileIndex = 0
    /\ result = << >>
    /\ matchCount = 0
    /\ hpc = "scan"
    /\ gitignoreReads = 0
    /\ suspended = NoInvocation
    /\ block = NoTags
    /\ matches = FALSE
    /\ qpc = "idle"
    /\ ExtractorIdle
    /\ TemplateIdle

\* The innermost scanFiles call returns the list found.  The outermost call
\* returns to the handler, which parses the query and starts its loop.
ScanReturns(found) ==
    IF Len(stack) = 1
    THEN /\ stack' = << >>
         /\ files' = found
         /\ parsed' = ParsedQuery(query)
         /\ hpc' = "loop"
    ELSE /\ stack' = [SubSeq(stack, 1, Len(stack) - 1)
                        EXCEPT ![Len(stack) - 1].files = @ \o found]
         /\ UNCHANGED << files, parsed, hpc >>

\* scanFiles up to the listing: the ignore rules are read from .gitignore
\* when respectGitignore is set, then the directory is listed; a failed
\* listing is caught and the call returns no files.
EnterDirectory ==
    /\ hpc = "scan"
    /\ stack # << >>
    /\ ~stack[Len(stack)].listed
    /\ LET top == stack[Len(stack)]
           gitignorePatterns == IF respectGitignore
                                THEN RulesOf(fsGitignore) ELSE << >>
       IN  IF top.node \in fsUnlistable
           THEN ScanReturns(<< >>)
           ELSE /\ stack' = [stack EXCEPT ![Len(stack)] =
                                [top EXCEPT !.listed = TRUE,
                                            !.patterns = gitignorePatterns,
                                            !.entries = readdir(fsFiles, top.node)]]
                /\ UNCHANGED << files, parsed, hpc >>
    /\ gitignoreReads' = IF respectGitignore
                         THEN gitignoreReads + 1 ELSE gitignoreReads
    /\ UNCHANGED << fsFiles, fsUnreadable, fsUnlistable, fsGitignore,
                    respectGitignore, fileIndex, result, matchCount, suspended >>
    /\ UNCHANGED << query, block, matches, qpc >>
    /\ UNCHANGED exVars
    /\ UNCHANGED templateVars

\* One turn of the loop over the entries of a directory.
VisitEntry ==
    /\ hpc = "scan"
    /\ stack # << >>
    /\ stack[Len(stack)].listed
    /\ stack[Len(stack)].entries # << >>
    /\ LET top == stack[Len(stack)]
           entry == Head(top.entries)
           fullPath == join(top.dir, entry.name)
           rest == [top EXCEPT !.entries = Tail(@)]
       IN  IF respectGitignore /\ IsIgnored(fullPath, top.patterns)
           THEN stack' = [stack EXCEPT ![Len(stack)] = rest]
           ELSE IF entry.isDirectory /\ ~IsExcludedDirectoryName(entry.name)
           THEN stack' = [stack EXCEPT ![Len(stack)] = rest]
                         \o << NewCall(fullPath, top.node \o << entry.name >>) >>
           ELSE IF entry.isFile /\ HasExtension(entry.name, DefaultExtensions)
           THEN stack' = [stack EXCEPT ![Len(stack)] =
                             [rest EXCEPT !.files = Append(@, fullPath)]]
           ELSE stack' = [stack EXCEPT ![Len(stack)] = rest]
    /\ UNCHANGED << fsFiles, fsUnreadable, fsUnlistable, fsGitignore,
                    respectGitignore, files, fileIndex, result, matchCount, hpc,
                    gitignoreReads, suspended >>
    /\ UNCHANGED queryVars
    /\ UNCHANGED exVars
    /\ UNCHANGED templateVars

\* A variant in which a scanFiles call never returns.
LeaveDirectoryNever == FALSE /\ UNCHANGED vars

\* The loop over the entries has ended: return files.
LeaveDirectory ==
    /\ hpc = "scan"
    /\ stack # << >>
    /\ stack[Len(stack)].listed
    /\ stack[Len(stack)].entries = << >>
    /\ ScanReturns(stack[Len(stack)].files)
    /\ UNCHANGED << fsFiles, fsUnreadable, fsUnlistable, fsGitignore,
                    respectGitignore, fileIndex, result, matchCount,
                    gitignoreReads, suspended >>
    /\ UNCHANGED << query, block, matches, qpc >>
    /\ UNCHANGED exVars
    /\ UNCHANGED templateVars

\* A variant of the loop's turn in which a failed read discards what was
\* accumulated.
ProcessFileDiscardingOnFailure ==
    /\ hpc = "loop"
    /\ fileIndex < Len(files)
    /\ LET filePath == files[fileIndex + 1]
           f == FileAt(fsFiles, filePath)
           blocks == BlocksOf(ContentOf(f))
           matchingBlocks == MatchingBlocks(blocks, parsed.scopes, parsed.operator)
       IN  IF f \in fsUnreadable
           THEN /\ result' = << >>
                /\ matchCount' = 0
           ELSE /\ result' = AppendEntries(result,
                                 RelativePath(filePath, RootPath), matchingBlocks)
                /\ matchCount' = matchCount + Len(matchingBlocks)
    /\ fileIndex' = fileIndex + 1
    /\ UNCHANGED << fsFiles, fsUnreadable, fsUnlistable, fsGitignore,
                    respectGitignore, stack, files, hpc, gitignoreReads,
                    suspended >>
    /\ UNCHANGED queryVars
    /\ UNCHANGED exVars
    /\ UNCHANGED templateVars

\* A variant of the loop's turn that takes the files from the end of the
\* list.
ProcessFileLastFirst ==
    /\ hpc = "loop"
    /\ fileIndex < Len(files)
    /\ LET filePath == files[Len(files) - fileIndex]
           f == FileAt(fsFiles, filePath)
           blocks == BlocksOf(ContentOf(f))
           matchingBlocks == MatchingBlocks(blocks, parsed.scopes, parsed.operator)
       IN  IF f \in fsUnreadable
           THEN UNCHANGED << result, matchCount >>
           ELSE /\ result' = AppendEntries(result,
                                 RelativePath(filePath, RootPath), matchingBlocks)
                /\ matchCount' = matchCount + Len(matchingBlocks)
    /\ fileIndex' = fileIndex + 1
    /\ UNCHANGED << fsFiles, fsUnreadable, fsUnlistable, fsGitignore,
                    respectGitignore, stack, files, hpc, gitignoreReads,
                    suspended >>
    /\ UNCHANGED queryVars
    /\ UNCHANGED exVars
    /\ UNCHANGED templateVars

\* One turn of the handler's loop over the files: read, extract, filter,
\* append.  A failed read is caught and the loop goes on.
ProcessFile ==
    /\ hpc = "loop"
    /\ fileIndex < Len(files)
    /\ LET filePath == files[fileIndex + 1]
           f == FileAt(fsFiles, filePath)
           blocks == BlocksOf(ContentOf(f))
           matchingBlocks == MatchingBlocks(blocks, parsed.scopes, parsed.operator)
       IN  IF f \in fsUnreadable
           THEN UNCHANGED << result, matchCount >>
           ELSE /\ result' = AppendEntries(result,
                                 RelativePath(filePath, RootPath), matchingBlocks)
                /\ matchCount' = matchCount + Len(matchingBlocks)
    /\ fileIndex' = fileIndex + 1
    /\ UNCHANGED << fsFiles, fsUnreadable, fsUnlistable, fsGitignore,
                    respectGitignore, stack, files, hpc, gitignoreReads,
                    suspended >>
    /\ UNCHANGED queryVars
    /\ UNCHANGED exVars
    /\ UNCHANGED templateVars

\* After the loop: the sentinel when nothing matched, then the response.
Respond ==
    /\ hpc = "loop"
    /\ fileIndex = Len(files)
    /\ result' = IF matchCount = 0 THEN Sentinel ELSE result
    /\ hpc' = "done"
    /\ UNCHANGED << fsFiles, fsUnreadable, fsUnlistable, fsGitignore,
                    respectGitignore, stack, files, fileIndex, matchCount,
                    gitignoreReads, suspended >>
    /\ UNCHANGED queryVars
    /\ UNCHANGED exVars
    /\ UNCHANGED templateVars

NextExtract ==
    EnterDirectory \/ VisitEntry \/ LeaveDirectory \/ ProcessFile \/ Respond

SpecExtract == InitExtract /\ [][NextExtract]_vars

\* The handler is one asynchronous function: each of its awaits on the file
\* system settles, so a step that can be taken is taken.
SpecExtractFair == SpecExtract /\ WF_vars(NextExtract)

(***************************************************************************)
(* SpecInterleaved: two invocations of the extract operation on one root.  *)
(* The server runs them on one thread: one invocation runs at a time, and  *)
(* at an await the other one may be resumed.  The handler's variables hold *)
(* the arguments and locals of the invocation that runs, suspended those   *)
(* of the other one.  A switch is allowed before every step, which         *)
(* includes the switches at the awaits.                                    *)
(***************************************************************************)
\* scanFiles(dir, rootPath, respect), run to its return without another
\* invocation in between: the files it returns.  node is dir as a list of
\* names.
RECURSIVE scanFiles(_, _, _)
RECURSIVE scanEntries(_, _, _, _)
scanEntries(entries, dir, node, respect) ==
    IF entries = << >> THEN << >>
    ELSE LET entry == Head(entries)
             fullPath == join(dir, entry.name)
             gitignorePatterns == IF respect THEN RulesOf(fsGitignore) ELSE << >>
         IN  (IF respect /\ IsIgnored(fullPath, gitignorePatterns)
              THEN << >>
              ELSE IF entry.isDirectory /\ ~IsExcludedDirectoryName(entry.name)
              THEN scanFiles(fullPath, node \o << entry.name >>, respect)
              ELSE IF entry.isFile /\ HasExtension(entry.name, DefaultExtensions)
              THEN << fullPath >>
              ELSE << >>)
             \o scanEntries(Tail(entries), dir, node, respect)

scanFiles(dir, node, respect) ==
    IF node \in fsUnlistable THEN << >>
    ELSE scanEntries(readdir(fsFiles, node), dir, node, respect)

\* The handler's loop over the files found, run without another invocation
\* in between: result and matchCount after the last file.
RECURSIVE LoopOverFiles(_, _, _)
LoopOverFiles(found, scopesAndOperator, soFar) ==
    IF found = << >> THEN soFar
    ELSE LET filePath == Head(found)
             f == FileAt(fsFiles, filePath)
             matchingBlocks == MatchingBlocks(BlocksOf(ContentOf(f)),
                                              scopesAndOperator.scopes,
                                              scopesAndOperator.operator)
         IN  LoopOverFiles(
                 Tail(found), scopesAndOperator,
                 IF f \in fsUnreadable THEN soFar
                 ELSE [result |-> AppendEntries(soFar.result,
                                     RelativePath(filePath, RootPath),
                                     matchingBlocks),
                       matchCount |-> soFar.matchCount + Len(matchingBlocks)])

\* The text an invocation returns when it runs alone.
ExtractCodeWithIndex(q, respect) ==
    LET out == LoopOverFiles(scanFiles(RootPath, << >>, respect),
                             ParsedQuery(q),
                             [result |-> << >>, matchCount |-> 0])
    IN  IF out.matchCount = 0 THEN Sentinel ELSE out.result

\* The arguments and locals of the invocation that runs.
RunningInvocation ==
    [query            |-> query,
     parsed           |-> parsed,
     respectGitignore |-> respectGitignore,
     stack            |-> stack,
     files            |-> files,
     fileIndex        |-> fileIndex,
     result           |-> result,
     matchCount       |-> matchCount,
     hpc              |-> hpc,
     gitignoreReads   |-> gitignoreReads]

\* An invocation with query q that has just been made.
NewInvocation(q, respect) ==
    [NoInvocation EXCEPT !.query = q,
                         !.respectGitignore = respect,
                         !.stack = << NewCall(RootPath, << >>) >>,
                         !.hpc = "scan"]

\* A variant in which result and matchCount are variables of the module,
\* one for all invocations: the resumed invocation finds the values the
\* other one left.
ResumedInvocationSharingResult ==
    [suspended EXCEPT !.result = result, !.matchCount = matchCount]

\* What the resumed invocation finds: its own arguments and locals, as they
\* were when it was suspended.
ResumedInvocation == suspended

\* The trees of the two-invocation runs: two files at the root; a file that
\* ends with pending tags, followed by a file that begins with a construct;
\* a file at the root and one in a subdirectory.
InterleavedTrees ==
    { { << NameATs >>, << NameBTs >> },
      { << NameOut, NameATs >>, << NameSrc, NameOut, NameBTs >> },
      { << NameATs >>, << NameSrc, NameCJs >> } }

InitInterleaved ==
    /\ fsFiles \in InterleavedTrees
    /\ fsUnreadable \in { U \in SUBSET fsFiles : Cardinality(U) <= 1 }
    /\ fsUnlistable \in { {}, { << NameSrc >> } }
    /\ fsGitignore \in { GitignoreAbsent, GitignoreWildcard }
    /\ respectGitignore \in BOOLEAN
    /\ query \in ExtractQueries
    /\ parsed = [scopes |-> << >>, operator |-> "or"]
    /\ stack = << NewCall(RootPath, << >>) >>
    /\ files = << >>
    /\ fileIndex = 0
    /\ result = << >>
    /\ matchCount = 0
    /\ hpc = "scan"
    /\ gitignoreReads = 0
    /\ suspended \in { NewInvocation(q, r) : q \in ExtractQueries, r \in BOOLEAN }
    /\ block = NoTags
    /\ matches = FALSE
    /\ qpc = "idle"
    /\ ExtractorIdle
    /\ TemplateIdle

\* The invocation that runs is suspended and the other one is resumed.
Yield ==
    /\ suspended.hpc \in {"scan", "loop"}
    /\ LET resumed == ResumedInvocation
       IN  /\ query' = resumed.query
           /\ parsed' = resumed.parsed
           /\ respectGitignore' = resumed.respectGitignore
           /\ stack' = resumed.stack
           /\ files' = resumed.files
           /\ fileIndex' = resumed.fileIndex
           /\ result' = resumed.result
           /\ matchCount' = resumed.matchCount
           /\ hpc' = resumed.hpc
           /\ gitignoreReads' = resumed.gitignoreReads
    /\ suspended' = RunningInvocation
    /\ UNCHANGED << fsFiles, fsUnreadable, fsUnlistable, fsGitignore >>
    /\ UNCHANGED << block, matches, qpc >>
    /\ UNCHANGED exVars
    /\ UNCHANGED templateVars

NextInterleaved == NextExtract \/ Yield

SpecInterleaved == InitInterleaved /\ [][NextInterleaved]_vars

(***************************************************************************)
(* SpecTemplate: the create-code-indexing-instructions handler, called    *)
(* again and again on one root, the user editing the file between calls.  *)
(* A file's text is one value: the fixed template, or a text of the user. *)
(***************************************************************************)
\* Largest number of calls of the operation in one run.
MaxCalls == 4

\* const template = ...
Template == "template"

\* What a user may turn the file's text into.
UserTexts == { "edited once", "edited twice", "edited again" }

InitTemplate ==
    /\ tplExists \in BOOLEAN
    /\ tplText \in IF tplExists THEN { Template } \cup UserTexts ELSE { "none" }
    /\ tplReadable \in BOOLEAN
    /\ tplWritable \in BOOLEAN
    /\ tplCalls = 0
    /\ tplWrites = 0
    /\ tplOutcome = "idle"
    /\ ExtractorIdle
    /\ QueryIdle
    /\ HandlerIdle

\* One call of the handler.  readFile succeeds when the file exists and can
\* be read: the file is left alone and reported as found.  When readFile
\* fails, for whatever reason, writeFile is called: it creates or overwrites
\* the file, or it fails and the handler's promise is rejected.
CreateInstructions ==
    /\ tplCalls < MaxCalls
    /\ tplCalls' = tplCalls + 1
    /\ IF tplExists /\ tplReadable
       THEN /\ tplOutcome' = "Found existing"
            /\ UNCHANGED << tplExists, tplText, tplReadable, tplWrites >>
       ELSE IF tplWritable
       THEN /\ tplExists' = TRUE
            /\ tplText' = Template
            /\ tplReadable' = IF tplExists THEN tplReadable ELSE TRUE
            /\ tplWrites' = tplWrites + 1
            /\ tplOutcome' = "Created"
       ELSE /\ tplOutcome' = "failed"
            /\ UNCHANGED << tplExists, tplText, tplReadable, tplWrites >>
    /\ UNCHANGED tplWritable
    /\ UNCHANGED exVars
    /\ UNCHANGED queryVars
    /\ UNCHANGED handlerVars

\* Before, between or after the calls the user changes the text of the file.
UserEdits ==
    /\ tplExists
    /\ tplText' \in UserTexts \ { tplText }
    /\ UNCHANGED << tplExists, tplReadable, tplWritable, tplCalls, tplWrites,
                    tplOutcome >>
    /\ UNCHANGED exVars
    /\ UNCHANGED queryVars
    /\ UNCHANGED handlerVars

NextTemplate == CreateInstructions \/ UserEdits

SpecTemplate == InitTemplate /\ [][NextTemplate]_vars

(***************************************************************************)
(* Notions the claims about extractCodeBlocks are stated with.  They are  *)
(* read off the file's text (lines) and the history, not off the          *)
(* extractor's own buffers.                                                *)
(***************************************************************************)
IsStartAt(k) == isCodeBlockStart(lines[k])

IsCommentAt(k) == isCommentLine(lines[k])

IsDecoratorAt(k) == isDecoratorLine(lines[k])

IsBlankAt(k) == ~isNonEmptyLine(lines[k])

\* A non-blank line that is no comment, no decorator and no construct start.
IsOrdinaryAt(k) ==
    /\ isNonEmptyLine(lines[k])
    /\ ~IsCommentAt(k)
    /\ ~IsDecoratorAt(k)
    /\ ~IsStartAt(k)

\* Adjacency: the comment at line s reaches the construct-start line c.
\* Comment, blank and decorator lines in between keep it; an ordinary line
\* keeps it only behind a decorator line; a construct-start line breaks it.
Unbroken(s, c) ==
    /\ s \in 1..(c - 1)
    /\ IsCommentAt(s)
    /\ \A j \in (s + 1)..(c - 1) :
          \/ IsCommentAt(j)
          \/ IsBlankAt(j)
          \/ IsDecoratorAt(j)
          \/ IsOrdinaryAt(j) /\ \E d \in (s + 1)..(j - 1) : IsDecoratorAt(d)

\* Line c has a comment run above it.
HasRun(c) == \E s \in 1..(c - 1) : Unbroken(s, c)

\* The first line of the comment run above line c.
RunStart(c) ==
    CHOOSE s \in 1..(c - 1) :
        Unbroken(s, c) /\ \A t \in 1..(s - 1) : ~Unbroken(t, c)

\* The scope declarations of the comment lines from..to, in source order.
RECURSIVE DeclarationsBetween(_, _)
DeclarationsBetween(from, to) ==
    IF from > to THEN << >>
    ELSE (IF IsCommentAt(from) THEN DeclarationsOf(lines[from]) ELSE << >>)
         \o DeclarationsBetween(from + 1, to)

\* The scope declarations of the comment run above line c.
RunDeclarations(c) == DeclarationsBetween(RunStart(c), c - 1)

\* The tag set a list of declarations stands for: every declared scope,
\* each with the tag list of its last declaration.
DeclaredTags(decls) ==
    [sc \in { decls[n].scope : n \in 1..Len(decls) } |->
        LET last == CHOOSE n \in 1..Len(decls) :
                        /\ decls[n].scope = sc
                        /\ \A m \in (n + 1)..Len(decls) : decls[m].scope # sc
        IN  decls[last].tags]

\* Line c is a construct-start line whose comment run declares a scope.
IsAnnotatedConstruct(c) ==
    IsStartAt(c) /\ HasRun(c) /\ RunDeclarations(c) # << >>

\* Line c is a tagged construct: a construct-start line whose comment run
\* declares at least one tag.
IsTaggedConstruct(c) ==
    /\ IsStartAt(c)
    /\ HasRun(c)
    /\ \E n \in 1..Len(RunDeclarations(c)) : RunDeclarations(c)[n].tags # << >>

TaggedConstructs == { c \in 1..Len(lines) : IsTaggedConstruct(c) }

\* No annotation of the file's comment lines has an empty tag list.
EveryAnnotationHasATag ==
    \A k \in 1..Len(lines) :
        IsCommentAt(k) =>
            \A n \in 1..Len(DeclarationsOf(lines[k])) :
                DeclarationsOf(lines[k])[n].tags # << >>

\* The k-th smallest element of a set of line numbers.
NthOf(S, k) == CHOOSE c \in S : Cardinality({ d \in S : d < c }) = k - 1

\* The extractor's variables after line c (1-based) was processed.
StateAfter(c) == IF c < i THEN hist[c + 1] ELSE ex

\* The lines processed so far at which a block was opened.
OpenedLines == { c \in 1..i : IsStartAt(c) /\ StateAfter(c).inCodeBlock }

\* The last line of the block opened at line c: the line before the next
\* construct-start line, or the last line of the file.
BlockEnd(c) ==
    IF \E e \in (c + 1)..Len(lines) : IsStartAt(e)
    THEN (CHOOSE e \in (c + 1)..Len(lines) :
              IsStartAt(e) /\ \A f \in (c + 1)..(e - 1) : ~IsStartAt(f)) - 1
    ELSE Len(lines)

\* The text of lines from..to, each followed by a line break.
RECURSIVE TextOfLines(_, _)
TextOfLines(from, to) ==
    IF from > to THEN << >>
    ELSE lines[from] \o NL \o TextOfLines(from + 1, to)

(***************************************************************************)
(* Claims about extractCodeBlocks (checked under Spec).                    *)
(***************************************************************************)

\* C1: extractCodeBlocks returns exactly one block for each tagged construct
\* of the file, in source order; two tagged constructs that follow each
\* other directly yield two blocks.  Stated for the files in which every
\* annotation carries a tag value (C4 is about the others).
C1_OneBlockPerTaggedConstruct ==
    (pc = "done" /\ EveryAnnotationHasATag) =>
        /\ Len(returned) = Cardinality(TaggedConstructs)
        /\ \A k \in 1..Len(returned) :
              returned[k].startLine = RunStart(NthOf(TaggedConstructs, k))

\* The case of C2: the next line to process is a construct-start line, and
\* line j is an ordinary line between a comment run and that line.
C2_Case(j) ==
    /\ pc = "scan"
    /\ i < Len(lines)
    /\ IsStartAt(i + 1)
    /\ j \in 1..i
    /\ IsOrdinaryAt(j)
    /\ \E m \in 1..(j - 1) :
          IsCommentAt(m) /\ \A n \in (m + 1)..i : ~IsStartAt(n)
    /\ \A n \in (j + 1)..i : ~IsCommentAt(n)

\* C2 as claimed: whenever an ordinary line lies between a comment run and
\* the next construct-start line, the pending tags are empty when that
\* construct-start line is processed, also behind a decorator line.
C2_OrdinaryLineAlwaysResets ==
    \A j \in 1..i : C2_Case(j) => HasNoKeys(ex.pendingTags)

\* C2, amended: whenever an ordinary line lies between a comment run and the
\* next construct-start line and the pending decorator buffer was empty when
\* that line was read, the pending tags are empty when the construct-start
\* line is processed.
C2_OrdinaryLineResetsUnlessDecorated ==
    \A j \in 1..i :
        (C2_Case(j) /\ hist[j].pendingDecoratorBuffer = << >>)
            => HasNoKeys(ex.pendingTags)

\* Witness of C2: an ordinary line arrived with tags pending and no
\* decorator buffered, and a construct-start line is next.
C2_Witness ==
    \E j \in 1..i :
        /\ C2_Case(j)
        /\ hist[j].pendingDecoratorBuffer = << >>
        /\ ~HasNoKeys(hist[j].pendingTags)
        /\ HasNoKeys(ex.pendingTags)

\* C3: the tags of every returned block are exactly the scope declarations
\* of the comment run above its construct line, a scope declared several
\* times having the tag list of its last declaration.
C3_TagsAreTheRunsDeclarations ==
    pc = "done" =>
        /\ Len(returned) = Cardinality(OpenedLines)
        /\ \A k \in 1..Len(returned) :
              /\ HasRun(NthOf(OpenedLines, k))
              /\ returned[k].tags =
                     DeclaredTags(RunDeclarations(NthOf(OpenedLines, k)))

\* Witness of C3: a returned block whose run declares scope b twice, with
\* different lists, and scope a once.
C3_Witness ==
    /\ pc = "done"
    /\ lines = << LineTwoTags, LineTagB, LineFunction >>
    /\ Len(returned) = 1
    /\ DOMAIN returned[1].tags = { ScopeA, ScopeB }
    /\ returned[1].tags[ScopeB] = << TagX, TagY >>

\* C4: every returned block declares at least one scope and every declared
\* scope has at least one tag value.
C4_EveryBlockHasTags ==
    pc = "done" =>
        \A k \in 1..Len(returned) :
            /\ DOMAIN returned[k].tags # {}
            /\ \A sc \in DOMAIN returned[k].tags : Len(returned[k].tags[sc]) >= 1

\* C5: a file without a tagged construct yields no block.
C5_NoTaggedConstructNoBlock ==
    (pc = "done" /\ TaggedConstructs = {}) => returned = << >>

\* C6: startLine of every returned block is the number of the first comment
\* line of the comment run above its construct line.
C6_StartLineIsFirstCommentOfRun ==
    pc = "done" =>
        /\ Len(returned) = Cardinality(OpenedLines)
        /\ \A k \in 1..Len(returned) :
              /\ HasRun(NthOf(OpenedLines, k))
              /\ returned[k].startLine = RunStart(NthOf(OpenedLines, k))
              /\ IsCommentAt(returned[k].startLine)

\* Witness of C6: a returned block whose comment run has more than one line
\* above the construct line.
C6_Witness ==
    /\ pc = "done"
    /\ \E k \in 1..Len(returned) :
          /\ k <= Cardinality(OpenedLines)
          /\ returned[k].startLine + 1 < NthOf(OpenedLines, k)
          /\ returned[k].startLine > 1

\* C7: code of every returned block is the text of the source lines from
\* the first line of its comment run through the last line before the next
\* construct-start line (or the end of the file), in source order and none
\* omitted, trimmed at both ends.
C7_CodeIsVerbatimSourceRange ==
    pc = "done" =>
        \A k \in 1..Len(returned) :
            /\ k <= Cardinality(OpenedLines)
            /\ HasRun(NthOf(OpenedLines, k))
            /\ returned[k].code =
                   Trim(TextOfLines(RunStart(NthOf(OpenedLines, k)),
                                    BlockEnd(NthOf(OpenedLines, k))))

(***************************************************************************)
(* Claims about parseQuery and matchesQuery (checked under SpecQuery).     *)
(***************************************************************************)
\* The elements of a sequence.
Range(seq) == { seq[n] : n \in 1..Len(seq) }

\* The block declares the requirement's scope and one of its tag values is
\* among the requirement's alternatives.
Satisfies(blockTags, requirement) ==
    /\ requirement.name \in DOMAIN blockTags
    /\ Range(blockTags[requirement.name]) \cap Range(requirement.tags) # {}

\* The block declares the scope with the tag.
HasTag(blockTags, scope, tag) ==
    scope \in DOMAIN blockTags /\ tag \in Range(blockTags[scope])

\* [a:x]&[b:y]
QueryAXandBY == PieceAX \o PieceAnd \o PieceBY

\* [a:x]|[b:y]
QueryAXorBY == PieceAX \o PieceOr \o PieceBY

\* C8: for a parsed query with at least one requirement, matchesQuery
\* returns true under AND iff every requirement is satisfied and under OR
\* iff at least one is; [a:x]&[b:y] matches exactly the blocks with tag x in
\* scope a and tag y in scope b, [a:x]|[b:y] those with either.
C8_MatchCombinesRequirements ==
    (qpc = "matched" /\ Len(parsed.scopes) >= 1) =>
        /\ parsed.operator = "and" =>
              (matches <=> \A r \in Range(parsed.scopes) : Satisfies(block, r))
        /\ parsed.operator = "or" =>
              (matches <=> \E r \in Range(parsed.scopes) : Satisfies(block, r))
        /\ query = QueryAXandBY =>
              (matches <=> HasTag(block, ScopeA, TagX) /\ HasTag(block, ScopeB, TagY))
        /\ query = QueryAXorBY =>
              (matches <=> HasTag(block, ScopeA, TagX) \/ HasTag(block, ScopeB, TagY))

\* Witness of C8: [a:x]&[b:y] was matched against a block that has x in
\* scope a but not y in scope b, and the block was rejected.
C8_Witness ==
    /\ qpc = "matched"
    /\ query = QueryAXandBY
    /\ parsed.operator = "and"
    /\ Len(parsed.scopes) = 2
    /\ HasTag(block, ScopeA, TagX)
    /\ ~HasTag(block, ScopeB, TagY)
    /\ ~matches

\* C9: the query [a:x,y] matches every block that declares scope a with tag
\* x or with tag y, the same blocks as [a:x|y].
C9_CommaSeparatesAlternatives ==
    (qpc = "matched" /\ query = PieceAXcommaY) =>
        /\ matches <=> (HasTag(block, ScopeA, TagX) \/ HasTag(block, ScopeA, TagY))
        /\ matches <=> matchesQuery(block, parseQuery(PieceAXorY).scopes,
                                    parseQuery(PieceAXorY).operator)

PushedBlock(st) ==
    [code |-> Trim(st.currentBlock), tags |-> st.currentBlockTags,
     startLine |-> st.blockStartLine]

\* C20: while a block is open, every line that is no construct-start line
\* (blank, body, comment or decorator line) is appended to the open block and
\* leaves it open; the list of closed blocks grows only at a construct-start
\* line read while a block is open, and the block open at end of file is
\* closed by the return.
C20_OpenBlockTakesEveryOtherLine ==
    /\ \A k \in 1..i :
          LET before == hist[k]
              after == StateAfter(k)
          IN  IF before.inCodeBlock /\ ~IsStartAt(k)
              THEN /\ after.inCodeBlock
                   /\ after.currentBlock = before.currentBlock \o lines[k] \o NL
                   /\ after.currentBlockTags = before.currentBlockTags
                   /\ after.blockStartLine = before.blockStartLine
                   /\ after.blocks = before.blocks
              ELSE IF before.inCodeBlock
              THEN after.blocks = Append(before.blocks, PushedBlock(before))
              ELSE after.blocks = before.blocks
    /\ pc = "done" =>
          returned = IF ex.inCodeBlock
                     THEN Append(ex.blocks, PushedBlock(ex))
                     ELSE ex.blocks

\* A block stayed open over a comment line and over a blank line, and was
\* closed by the end of the file.
C20_Witness ==
    /\ pc = "done"
    /\ ex.inCodeBlock
    /\ \E k \in 1..i : hist[k].inCodeBlock /\ IsCommentAt(k)
    /\ \E k \in 1..i : hist[k].inCodeBlock /\ IsBlankAt(k)

(***************************************************************************)
(* Further claims about parseQuery and matchesQuery (checked under         *)
(* SpecQuery).                                                             *)
(***************************************************************************)

\* The string q holds a bracket group: "[", one or more characters other
\* than "]", and "]".
HasBracketGroup(q) ==
    \E a \in 1..Len(q) : \E b \in (a + 2)..Len(q) :
        /\ q[a] = "["
        /\ q[b] = "]"
        /\ \A k \in (a + 1)..(b - 1) : q[k] # "]"

\* C11: a query in which no bracket group is found parses to zero
\* requirements, and matchesQuery then returns true for every block, whatever
\* the block's tags and whatever the combinator.
C11_EmptyQueryMatchesEveryBlock ==
    ~HasBracketGroup(query) =>
        /\ qpc \in {"parsed", "matched"} => parsed.scopes = << >>
        /\ qpc = "matched" => matches

\* A query of one "&" only (combinator AND) was matched against a block
\* without tags.
C11_Witness ==
    /\ qpc = "matched"
    /\ query = PieceAnd
    /\ parsed.operator = "and"
    /\ parsed.scopes = << >>
    /\ block = NoTags
    /\ matches

(***************************************************************************)
(* Notions the claims about the extract operation are stated with.  They  *)
(* are read off the tree (fsFiles and the failures), the walker's list    *)
(* (files) and the query.                                                  *)
(***************************************************************************)
\* The path of file f relative to the root, from its entry names.
NamePath(f) == JoinWith(f, "/")

\* The blocks of file f that match the query, in the file's block order.
MatchingBlocksOfFile(f) ==
    LET q == parseQuery(query)
    IN  MatchingBlocks(extractCodeBlocks(ContentOf(f)), q.scopes, q.operator)

\* The entries due for the candidate files paths, in their order: for each
\* file not in the set skipped, one entry per matching block.
RECURSIVE EntriesDue(_, _)
EntriesDue(paths, skipped) ==
    IF paths = << >> THEN << >>
    ELSE LET f == FileAt(fsFiles, Head(paths))
             mb == MatchingBlocksOfFile(f)
         IN  (IF f \in skipped THEN << >>
              ELSE [n \in 1..Len(mb) |-> EntryText(NamePath(f), mb[n].code)])
             \o EntriesDue(Tail(paths), skipped)

\* The entries, a blank line between one and the next.
RECURSIVE EntriesJoined(_)
EntriesJoined(entries) ==
    IF entries = << >> THEN << >>
    ELSE IF Len(entries) = 1 THEN entries[1]
    ELSE entries[1] \o <<"\n","\n">> \o EntriesJoined(Tail(entries))

\* The text the handler returns for a list of entries.
TextDue(entries) == IF entries = << >> THEN Sentinel ELSE EntriesJoined(entries)

\* The sequence paths without the paths of the files in the set dropped.
RECURSIVE PathsWithout(_, _)
PathsWithout(paths, dropped) ==
    IF paths = << >> THEN << >>
    ELSE (IF FileAt(fsFiles, Head(paths)) \in dropped THEN << >>
          ELSE << Head(paths) >>)
         \o PathsWithout(Tail(paths), dropped)

\* The entry of a.ts and the entry of b.ts in the two-file scenario.
EntryOfATs == EntryText(NameATs, FileAuth)

EntryOfBTs == EntryText(NameBTs, FilePayment)

\* The two-file scenario: a.ts and b.ts at the root, everything readable, no
\* ignore rule in force.
TwoFileScenario ==
    /\ fsFiles = { << NameATs >>, << NameBTs >> }
    /\ fsUnreadable = {}
    /\ fsUnlistable = {}
    /\ ~respectGitignore

(***************************************************************************)
(* Claims about the extract operation (checked under SpecExtract).        *)
(***************************************************************************)

\* C12: the result of the extract operation holds an entry for exactly the
\* blocks that extractCodeBlocks yields for a readable candidate file and that
\* match the parsed query, none twice, in the walker's file order and within
\* a file in block order; for a.ts tagged [a:x] and b.ts tagged [a:y], query
\* [a:x] returns only the block of a.ts and [a:x]|[a:y] returns both.
C12_ResultIsTheMatchingBlocksInOrder ==
    hpc = "done" =>
        /\ result = TextDue(EntriesDue(files, fsUnreadable))
        /\ matchCount = Len(EntriesDue(files, fsUnreadable))
        /\ (TwoFileScenario /\ query = PieceAX) => result = EntryOfATs
        /\ (TwoFileScenario /\ query = PieceAX \o PieceOr \o PieceAY) =>
               result = EntryOfATs \o <<"\n","\n">> \o EntryOfBTs

\* The two-file scenario has run with the query [a:x]|[a:y].
C12_Witness ==
    /\ hpc = "done"
    /\ TwoFileScenario
    /\ query = PieceAX \o PieceOr \o PieceAY
    /\ matchCount = 2

\* C13: the extract operation returns the sentinel "No matching code found"
\* iff no block matched in any candidate file, and never for a scan that
\* could not run (the listing of the root failed).
C13_SentinelOnlyAfterASuccessfulScan ==
    hpc = "done" =>
        /\ (result = Sentinel) <=> (EntriesDue(files, fsUnreadable) = << >>)
        /\ << >> \in fsUnlistable => result # Sentinel

\* C14: invoked with a folderPath whose listing fails, the extract operation
\* returns the text "Error reading code: ..." and not the sentinel.
C14_InvalidRootGivesAnErrorMessage ==
    (hpc = "done" /\ << >> \in fsUnlistable) =>
        /\ StartsWith(result, <<"E","r","r","o","r"," ","r","e","a","d","i","n","g"," ","c","o","d","e",":"," ">>)
        /\ result # Sentinel

\* C15: a file whose read fails contributes no entry and leaves the result
\* text and the match count as they were; the loop goes on with the next
\* file, and the final result is that of the same scan without the failing
\* file.
C15_UnreadableFileContributesNothing ==
    LET processed == SubSeq(files, 1, fileIndex)
        due == EntriesDue(PathsWithout(processed, fsUnreadable), {})
    IN  /\ hpc = "loop" =>
              /\ matchCount = Len(due)
              /\ result = EntriesJoined(due)
        /\ hpc = "done" =>
              /\ fileIndex = Len(files)
              /\ matchCount = Len(due)
              /\ result = TextDue(due)

\* A scan has ended in which the read of the first of two candidate files
\* failed and the second contributed an entry.
C15_Witness ==
    /\ hpc = "done"
    /\ Len(files) = 2
    /\ FileAt(fsFiles, files[1]) \in fsUnreadable
    /\ matchCount > 0

\* C16 (checked under SpecExtractFair): every invocation of the extract
\* operation ends and returns one text: from some step on the handler has
\* responded and its result is a text that no later step changes.  No
\* failure of a listing, of the ignore-file read or of a file read leads
\* anywhere else.
C16_EveryInvocationReturnsOneText ==
    <>[](hpc = "done" /\ result # << >>)

\* An invocation has ended in which the listing of src failed, the ignore
\* file could not be read and the read of a file failed.
C16_Witness ==
    /\ hpc = "done"
    /\ << NameSrc >> \in fsUnlistable
    /\ NameSrc \in Children(fsFiles, << >>)
    /\ respectGitignore
    /\ ~fsGitignore.exists
    /\ fsUnreadable # {}

\* The names the .gitignore of the root lists as directories: the lines
\* that are, without the blanks around them, a name followed by "/".
ListedDirectoryNames ==
    IF fsGitignore.exists
    THEN LET ls == SplitOn(fsGitignore.text, {"\n"})
         IN  { d \in { NameOrder[n] : n \in 1..Len(NameOrder) } :
                 \E n \in 1..Len(ls) : Trim(ls[n]) = d \o <<"/">> }
    ELSE {}

\* File f lies in a directory with one of the names of the set, at the root
\* or deeper.
LiesUnder(f, dirNames) == \E k \in 1..(Len(f) - 1) : f[k] \in dirNames

\* C17: with respectGitignore true and a directory listed in the root's
\* .gitignore with a trailing slash (out/, build/), no file under a directory
\* of that name, at the root or nested, is in the candidate list or has an
\* entry in the result.
C17_ListedDirectoriesAreNeverScanned ==
    (respectGitignore /\ hpc \in {"loop", "done"}) =>
        /\ \A n \in 1..Len(files) :
              ~LiesUnder(FileAt(fsFiles, files[n]), ListedDirectoryNames)
        /\ \A f \in fsFiles :
              LiesUnder(f, ListedDirectoryNames) =>
                  ~IncludesText(result, NamePath(f))

\* A scan with out/ listed has ended on a tree with a file under src/out and
\* a file at the root, which was found.
C17_Witness ==
    /\ hpc = "done"
    /\ respectGitignore
    /\ NameOut \in ListedDirectoryNames
    /\ fsFiles = { << NameSrc, NameOut, NameBTs >>, << NameATs >> }
    /\ fsUnlistable = {}
    /\ Len(files) = 1

\* The directory names that are always skipped.
IsFixedExclusion(name) ==
    \/ Head(name) = "."
    \/ name \in { NameNodeModules, NameDist, NameBuild }

\* C18: for both values of respectGitignore and every ignore file, scanFiles
\* never descends into a directory whose name starts with "." or is
\* node_modules, dist or build: no call is ever made for such a directory or
\* below one, and no path of the returned list has one among its directories.
C18_FixedExclusionsAreNeverEntered ==
    /\ \A n \in 1..Len(stack) :
          \A k \in 1..Len(stack[n].node) : ~IsFixedExclusion(stack[n].node[k])
    /\ \A n \in 1..Len(files) :
          LET f == FileAt(fsFiles, files[n])
          IN  \A k \in 1..(Len(f) - 1) : ~IsFixedExclusion(f[k])

\* A scan without ignore rules has ended on a tree with a file under build
\* and a file at the root, which was found.
C18_Witness ==
    /\ hpc = "done"
    /\ ~respectGitignore
    /\ fsFiles = { << NameBuild, NameATs >>, << NameATs >> }
    /\ fsUnlistable = {}
    /\ Len(files) = 1

(***************************************************************************)
(* Claims about the instructions-template operation (checked under        *)
(* SpecTemplate).                                                          *)
(***************************************************************************)

\* C19: the operation creates the file from the template only when it is
\* absent.  For every call: after a call that succeeded the file exists; a
\* file that existed before the call has the text it had, and is reported as
\* found; over all the calls of a run the file is written at most once.
C19_TemplateIsWrittenOnlyWhenAbsent ==
    [][ tplCalls' = tplCalls + 1 =>
          /\ tplOutcome' \in {"Created", "Found existing"} => tplExists'
          /\ tplExists => tplText' = tplText
          /\ (tplExists /\ tplOutcome' # "failed") => tplOutcome' = "Found existing"
          /\ tplWrites' <= 1 ]_vars

(***************************************************************************)
(* Claims about the extractor's pending state and its blocks (checked      *)
(* under Spec).                                                            *)
(***************************************************************************)

\* C21: every block extractCodeBlocks opens is emitted exactly once.  While
\* the file is read, the closed blocks plus the open one are as many as the
\* lines at which a block was opened; the k-th returned block is the block
\* opened at the k-th such line, as it stood after the last line before the
\* next construct-start line (or after the last line of the file); a block
\* still open after the last line is the last returned block.
C21_EveryOpenedBlockIsReturnedOnce ==
    /\ Len(ex.blocks) + (IF ex.inCodeBlock THEN 1 ELSE 0)
           = Cardinality(OpenedLines)
    /\ pc = "done" =>
          /\ Len(returned) = Cardinality(OpenedLines)
          /\ \A k \in 1..Len(returned) :
                LET c == NthOf(OpenedLines, k)
                    last == StateAfter(BlockEnd(c))
                IN  /\ last.inCodeBlock
                    /\ returned[k] = PushedBlock(last)
          /\ ex.inCodeBlock => returned[Len(returned)] = PushedBlock(ex)

\* Witness of C21: one block was closed by the next construct-start line and
\* another one was still open after the last line; both are returned.
C21_Witness ==
    /\ pc = "done"
    /\ ex.inCodeBlock
    /\ Len(ex.blocks) = 1
    /\ Len(returned) = 2
    /\ returned[1].startLine # returned[2].startLine

\* C22: outside a block, a decorator line is kept iff pending comment text or
\* pending tags exist: it is then appended to the decorator buffer and the
\* pending comment text, tags and start line stay as they are; otherwise it
\* leaves all pending buffers empty, as any other non-blank line does.
C22_DecoratorKeptIffSomethingPending ==
    \A k \in 1..i :
        LET before == hist[k]
            after == StateAfter(k)
        IN  (~before.inCodeBlock /\ IsDecoratorAt(k)) =>
                IF \/ before.pendingCommentBuffer # << >>
                   \/ DOMAIN before.pendingTags # {}
                THEN after = [before EXCEPT !.pendingDecoratorBuffer =
                                                @ \o lines[k] \o NL]
                ELSE /\ after.pendingCommentBuffer = << >>
                     /\ after.pendingTags = NoTags
                     /\ after.pendingCommentStartLine = NullLine
                     /\ after.pendingDecoratorBuffer = << >>
                     /\ ~after.inCodeBlock
                     /\ after.blocks = before.blocks

\* Witness of C22: a decorator line was read with nothing pending, and
\* another one behind a comment line that declares no tag.
C22_Witness ==
    /\ \E k \in 1..i :
          /\ ~hist[k].inCodeBlock /\ IsDecoratorAt(k)
          /\ hist[k].pendingCommentBuffer = << >>
          /\ StateAfter(k).pendingDecoratorBuffer = << >>
    /\ \E k \in 1..i :
          /\ ~hist[k].inCodeBlock /\ IsDecoratorAt(k)
          /\ hist[k].pendingCommentBuffer # << >>
          /\ HasNoKeys(hist[k].pendingTags)
          /\ StateAfter(k).pendingDecoratorBuffer = lines[k] \o NL

\* C23: outside a block, a construct-start line read while no tags are
\* pending opens no block and clears the pending comment buffer, decorator
\* buffer and start line; a block opened later starts after that line.
C23_UntaggedConstructDiscardsComments ==
    \A k \in 1..i :
        LET before == hist[k]
            after == StateAfter(k)
        IN  (~before.inCodeBlock /\ IsStartAt(k) /\ HasNoKeys(before.pendingTags)) =>
                /\ ~after.inCodeBlock
                /\ after.blocks = before.blocks
                /\ after.pendingCommentBuffer = << >>
                /\ after.pendingTags = NoTags
                /\ after.pendingCommentStartLine = NullLine
                /\ after.pendingDecoratorBuffer = << >>
                /\ \A c \in OpenedLines :
                      c > k => StateAfter(c).blockStartLine > k

\* Witness of C23: a comment without tags and a decorator were pending when
\* an untagged construct was read, and a block was opened further down.
C23_Witness ==
    \E k \in 1..i :
        /\ ~hist[k].inCodeBlock /\ IsStartAt(k) /\ HasNoKeys(hist[k].pendingTags)
        /\ hist[k].pendingCommentBuffer # << >>
        /\ \E c \in OpenedLines : c > k

\* The scope keys that the line read at step k added to the pending tags or
\* gave another tag list.
KeysSetAt(k) ==
    { sc \in DOMAIN StateAfter(k).pendingTags :
        \/ sc \notin DOMAIN hist[k].pendingTags
        \/ StateAfter(k).pendingTags[sc] # hist[k].pendingTags[sc] }

NothingPending(st) ==
    /\ st.pendingCommentBuffer = << >>
    /\ st.pendingTags = NoTags
    /\ st.pendingCommentStartLine = NullLine
    /\ st.pendingDecoratorBuffer = << >>

C30_TagsComeWithCommentAndStartLine ==
    /\ ~HasNoKeys(ex.pendingTags) =>
          /\ ex.pendingCommentBuffer # << >>
          /\ ex.pendingCommentStartLine # NullLine
    /\ ex.pendingDecoratorBuffer # << >> => ex.pendingCommentBuffer # << >>
    /\ \A c \in OpenedLines :
          /\ hist[c].pendingCommentStartLine # NullLine
          /\ StateAfter(c).blockStartLine \in 1..(c - 1)
          /\ IsCommentAt(StateAfter(c).blockStartLine)
    /\ pc = "done" =>
          /\ Len(returned) = Cardinality(OpenedLines)
          /\ \A k \in 1..Len(returned) :
                /\ returned[k].startLine \in 1..(NthOf(OpenedLines, k) - 1)
                /\ IsCommentAt(returned[k].startLine)

\* Witness of C30: a block was opened behind two comment lines and a
\* decorator line; its startLine is two lines above the decorator.
C30_Witness ==
    /\ pc = "done"
    /\ \E c \in OpenedLines :
          /\ c = 4
          /\ IsDecoratorAt(3)
          /\ hist[c].pendingDecoratorBuffer # << >>
          /\ StateAfter(c).blockStartLine = 1
    /\ Len(returned) = 1
    /\ returned[1].startLine = 1

(***************************************************************************)
(* Claims about alternatives inside one bracket group (checked under       *)
(* SpecQuery).                                                             *)
(***************************************************************************)

C26_GitignoreIsReadOncePerInvocation ==
    hpc \in {"loop", "done"} =>
        gitignoreReads = IF respectGitignore THEN 1 ELSE 0

\* The result text after the turn of the loop for the file at position k of
\* the candidate list, from the text before it: unchanged when the file
\* cannot be read, else with one entry per matching block of that file.
ResultAfterFile(text, k) ==
    LET f == FileAt(fsFiles, files[k])
    IN  IF f \in fsUnreadable THEN text
        ELSE AppendEntries(text, NamePath(f), MatchingBlocksOfFile(f))

\* C27: the files are processed one after another in the order of the
\* candidate list.  While the traversal runs no file has been read and the
\* result is empty; the candidate list is fixed once the traversal has
\* returned; every step that reads a file is taken after the traversal, is
\* the turn of the next file of the list and of no other, and leaves the
\* result with that file's entries appended (or as it was, when the read
\* fails); the result changes in no other step of the loop.
C27_FilesAreProcessedOneAfterAnother ==
    [][ /\ hpc = "scan" => (fileIndex = 0 /\ result = << >> /\ files = << >>)
        /\ hpc # "scan" => (stack = << >> /\ files' = files)
        /\ fileIndex' # fileIndex =>
              /\ hpc = "loop" /\ hpc' = "loop"
              /\ fileIndex' = fileIndex + 1
              /\ fileIndex' <= Len(files)
              /\ result' = ResultAfterFile(result, fileIndex + 1)
        /\ (hpc = "loop" /\ hpc' = "loop" /\ fileIndex' = fileIndex) =>
              result' = result ]_vars

\* Witness of C27: the traversal has returned two files, the first has been
\* processed and has given the result an entry, the second has not been read.
C27_Witness ==
    /\ hpc = "loop"
    /\ stack = << >>
    /\ Len(files) = 2
    /\ fileIndex = 1
    /\ result # << >>
    /\ fsUnreadable = {}

(***************************************************************************)
(* Claims about invocations that run side by side (checked under           *)
(* SpecInterleaved).                                                       *)
(***************************************************************************)

\* C28: extraction state crosses neither file nor call boundaries.  Each of
\* two invocations whose steps interleave returns the text it returns when
\* it runs alone, in which the blocks of every file are those
\* extractCodeBlocks yields for that file's text from its initial state,
\* whatever file was processed before and however that file ended.
C28_InvocationsDoNotShareState ==
    /\ hpc = "done" =>
          result = ExtractCodeWithIndex(query, respectGitignore)
    /\ suspended.hpc = "done" =>
          suspended.result =
              ExtractCodeWithIndex(suspended.query, suspended.respectGitignore)

\* Witness of C28: both invocations are in their loops at once; each has
\* processed the file that ends with pending tags and has not yet read the
\* file that begins with a construct, and their results differ.
C28_Witness ==
    /\ hpc = "loop"
    /\ suspended.hpc = "loop"
    /\ Len(files) = 2
    /\ ContentOf(FileAt(fsFiles, files[1])) = FileDangling
    /\ ContentOf(FileAt(fsFiles, files[2])) = FileBare
    /\ fsUnreadable = {}
    /\ fileIndex = 1
    /\ suspended.fileIndex = 1
    /\ result # << >>
    /\ suspended.result # result

(***************************************************************************)
(* Claims about the order and the extent of the returned blocks (checked   *)
(* under Spec).                                                            *)
(***************************************************************************)

\* C31: in the returned list startLine is strictly increasing, and the line
\* ranges of two blocks never overlap: the range of a block goes from its
\* startLine over its construct line to the last line appended to it, and it
\* ends before the startLine of the next block.
C31_BlocksAreOrderedAndDisjoint ==
    pc = "done" =>
        /\ Len(returned) = Cardinality(OpenedLines)
        /\ \A k \in 1..Len(returned) :
              /\ returned[k].startLine <= NthOf(OpenedLines, k)
              /\ NthOf(OpenedLines, k) <= BlockEnd(NthOf(OpenedLines, k))
        /\ \A k \in 1..(Len(returned) - 1) :
              /\ returned[k].startLine < returned[k + 1].startLine
              /\ BlockEnd(NthOf(OpenedLines, k)) < returned[k + 1].startLine

\* Witness of C31: two blocks were returned, the first of them closed by a
\* construct-start line that lies between the two ranges.
C31_Witness ==
    /\ pc = "done"
    /\ Len(returned) = 2
    /\ returned[1].startLine = 1
    /\ BlockEnd(NthOf(OpenedLines, 1)) = 2
    /\ returned[2].startLine = 4

\* Line s is a comment line that declares a scope, read outside a block, and
\* only blank lines and comment lines lie between it and line c.
ReachesOverBlanks(s, c) ==
    /\ s \in 1..(c - 1)
    /\ IsCommentAt(s)
    /\ ~hist[s].inCodeBlock
    /\ DeclarationsOf(lines[s]) # << >>
    /\ \A j \in (s + 1)..(c - 1) : IsBlankAt(j) \/ IsCommentAt(j)

\* C32: outside a block, a blank line leaves the pending tags, the pending
\* comment buffer and the pending start line as they are, opens no block and
\* closes none; a construct-start line that is separated from comment lines
\* with tags by blank lines and comment lines only opens a block that has
\* the scopes of all those comment lines, whose tags are the declarations of
\* all of them, and that starts at the first of them or above.
C32_BlankLineKeepsThePendingAnnotation ==
    /\ \A k \in 1..i :
          LET before == hist[k]
              after == StateAfter(k)
          IN  (~before.inCodeBlock /\ IsBlankAt(k)) =>
                  /\ after.pendingTags = before.pendingTags
                  /\ after.pendingCommentBuffer = before.pendingCommentBuffer
                  /\ after.pendingCommentStartLine = before.pendingCommentStartLine
                  /\ ~after.inCodeBlock
                  /\ after.blocks = before.blocks
    /\ \A c \in 1..i : \A s \in 1..(c - 1) :
          (IsStartAt(c) /\ ReachesOverBlanks(s, c)) =>
              /\ StateAfter(c).inCodeBlock
              /\ StateAfter(c).blockStartLine <= s
              /\ StateAfter(c).currentBlockTags =
                     DeclaredTags(DeclarationsBetween(
                         StateAfter(c).blockStartLine, c - 1))
              /\ \A n \in 1..Len(DeclarationsOf(lines[s])) :
                    DeclarationsOf(lines[s])[n].scope
                        \in DOMAIN StateAfter(c).currentBlockTags

\* Witness of C32: two comment lines with tags for different scopes, a blank
\* line between them, then the construct: the block has both scopes.
C32_Witness ==
    /\ i >= 4
    /\ lines[1] = LineTagA
    /\ IsBlankAt(2)
    /\ lines[3] = LineTagB
    /\ IsStartAt(4)
    /\ hist[3].pendingTags = hist[2].pendingTags
    /\ StateAfter(4).inCodeBlock
    /\ StateAfter(4).blockStartLine = 1
    /\ DOMAIN StateAfter(4).currentBlockTags = { ScopeA, ScopeB }

\* The construct-start lines among the lines of a text.
StartLinesOf(text) ==
    LET ls == SplitOn(text, {"\n"})
    IN  { n \in 1..Len(ls) : isCodeBlockStart(ls[n]) }

\* C33: the code of every returned block holds exactly one construct-start
\* line, the line that opened the block.  At every point of the loop the
\* pending comment text and the pending decorator text hold none, and the
\* text of the open block holds exactly one.
C33_OneConstructLinePerBlock ==
    /\ StartLinesOf(ex.pendingCommentBuffer) = {}
    /\ StartLinesOf(ex.pendingDecoratorBuffer) = {}
    /\ ex.inCodeBlock => Cardinality(StartLinesOf(ex.currentBlock)) = 1
    /\ pc = "done" =>
          /\ Len(returned) = Cardinality(OpenedLines)
          /\ \A k \in 1..Len(returned) :
                LET ls == SplitOn(returned[k].code, {"\n"})
                IN  /\ Cardinality(StartLinesOf(returned[k].code)) = 1
                    /\ \A n \in StartLinesOf(returned[k].code) :
                          Trim(ls[n]) = Trim(lines[NthOf(OpenedLines, k)])

\* Witness of C33: a returned block of a comment line, a decorator line, the
\* construct line and a body line.
C33_Witness ==
    /\ pc = "done"
    /\ Len(returned) = 1
    /\ Len(SplitOn(returned[1].code, {"\n"})) = 4
    /\ IsDecoratorAt(2)
    /\ StartLinesOf(returned[1].code) = { 3 }
    /\ lines[4] = LineBody

(***************************************************************************)
(* Claims about bracket groups without tags (checked under SpecQuery).     *)
(***************************************************************************)

\* C34: a bracket group that yields no tag is a requirement no block
\* satisfies.  [a] and [a:] are parsed to one requirement for scope a with
\* an empty tag list; a query whose groups all are without tags matches no
\* block, and under the combinator AND one group without tags is enough for
\* the query to match no block.
C34_GroupWithoutTagsMatchesNothing ==
    /\ (qpc \in {"parsed", "matched"} /\ query \in { PieceAOnly, PieceANoTags }) =>
          parsed.scopes = << [name |-> ScopeA, tags |-> << >>] >>
    /\ qpc = "matched" =>
          /\ (/\ Len(parsed.scopes) >= 1
              /\ \A n \in 1..Len(parsed.scopes) : parsed.scopes[n].tags = << >>)
                 => ~matches
          /\ (/\ parsed.operator = "and"
              /\ \E n \in 1..Len(parsed.scopes) : parsed.scopes[n].tags = << >>)
                 => ~matches

\* Witness of C34: [a:x]&[a] was matched against a block that has x in scope
\* a, and the block was rejected.
C34_Witness ==
    /\ qpc = "matched"
    /\ query = PieceAX \o PieceAnd \o PieceAOnly
    /\ parsed.operator = "and"
    /\ Len(parsed.scopes) = 2
    /\ parsed.scopes[2].tags = << >>
    /\ HasTag(block, ScopeA, TagX)
    /\ ~matches

=============================================================================
